---- MODULE Spec2Model ----
(***************************************************************************)
(* Escrow wager settlement engine of coinflip-solana (backend/api.py,      *)
(* backend/database/repo.py, backend/game/escrow.py, backend/game/         *)
(* coinflip.py).                                                           *)
(*                                                                         *)
(* Amounts are integer lamports (1 SOL = LAMPORTS_PER_SOL); rates are      *)
(* integer basis points.  The float rounding of the source is not          *)
(* modelled.  Each request handler is cut into steps at its `await`s       *)
(* on ledger I/O: the code between two awaits runs without interleaving    *)
(* on the event loop and is one action.  A balance query and the transfer  *)
(* it sizes are taken as one step.  Callers are anonymous wallet users:    *)
(* the user id is derived from the wallet.                                 *)
(***************************************************************************)
EXTENDS Integers, Sequences, FiniteSets, TLC

\* ------------------------------------------------------------------ bounds
MaxWagers == 2
MaxEscrows == 2
MaxDeposits == 3
MaxTicks == 2
NumEndpoints == 2
MaxRequests == 5
MaxUsers == 2

\* ------------------------------------------------------- program constants
LAMPORTS_PER_SOL == 1000000000
RENT_EXEMPT_LAMPORTS == 890880
ACCEPTING_TIMEOUT_SECONDS == 60
TRANSACTION_FEE == LAMPORTS_PER_SOL \div 40
DepositTolerance == LAMPORTS_PER_SOL \div 1000
BpDenominator == 10 * 1000
AdminRefundMinimum == LAMPORTS_PER_SOL \div 1000
AdminRefundReserve == 5000
failure_threshold == 3
success_threshold == 2
timeout_seconds == 60

\* ------------------------------------------------------------ input sets
Wallets == {"alice", "bob", "carol"}
Sides == {"heads", "tails"}
CallIds == {1, 2}
TickSeconds == ACCEPTING_TIMEOUT_SECONDS \div 2
Stake == LAMPORTS_PER_SOL \div 10
Amounts == {Stake}
DepositAmounts == {Stake, Stake + DepositTolerance}
CreatorWallets == {"alice"}
Blockhashes == {1, 2}
SigIds == 1..MaxDeposits
EscrowIds == 1..MaxEscrows
WagerIds == 1..MaxWagers
EndpointIds == 1..NumEndpoints
RpcCallIds == {1, 2}
SolCallIds == {1, 2}
SolAmounts == {0, 1, 2}
SenderLamports == 3
MaxRetries == {1, NumEndpoints}

VARIABLES
    wagers,           \* the wagers table: wager_id -> row, or NoRow
    used_signatures,  \* the used_signatures table: signature -> used_for (0 = no row)
    users,            \* the users table: its rows
    chain,            \* confirmed deposit transactions; the signature is the index
    balance,          \* ledger balance of each escrow address
    transfers,        \* per wager: the transfers the backend made from its escrows
    nextEscrow,       \* generate_wallet(): the next fresh keypair
    nextWager,        \* uuid4 of the next wager
    nextGame,         \* uuid4 of the next game
    games,            \* the games table: the rows save_game wrote
    now,              \* datetime.utcnow(), in seconds
    calls,            \* requests in flight, suspended at an await
    resp,             \* the response returned in this step, or NoResp
    soft_lock,        \* per wager: acceptor_wallet / accepting_at as prepare-accept set them
    acceptors,        \* history: the acceptor ids ever stored on each wager
    endpoints,        \* RPCManager.endpoints: the circuit breaker of each endpoint
    rpc_calls,        \* call_with_failover operations suspended at `await method(...)`
    sol_calls,        \* transfer_sol calls suspended at an await of their retry loop
    ledger,           \* the sender's account on the ledger and the signatures processed
    moved             \* history: how often the ledger debited the amount of each call

vars == <<wagers, used_signatures, users, chain, balance, transfers,
          nextEscrow, nextWager, nextGame, games, now, calls, resp,
          soft_lock, acceptors, endpoints, rpc_calls, sol_calls, ledger, moved>>

\* The state of the wager engine, and the state of the RPC gateway.
solvars == <<sol_calls, ledger, moved>>
rpcvars == <<endpoints, rpc_calls, sol_calls, ledger, moved>>

NoRow == [status |-> "absent"]
NoCall == [op |-> "idle"]
NoResp == [op |-> "none", result |-> "none"]
NoLock == [acceptor_wallet |-> "none", accepting_at |-> -1]

\* wallet_to_user_id: abs(hash(wallet)) % 10**10, a map of all wallet
\* addresses onto ten-digit ids. The model names an id after a wallet that
\* hashes to it; alice, bob and carol get different ids, and CollidingWallet
\* is an address whose hash falls on alice's id.
CollidingWallet == "dave"
wallet_to_user_id(wallet) == IF wallet = CollidingWallet THEN "alice" ELSE wallet

\* Database._row_to_wager: the columns of the row; acceptor_wallet and
\* accepting_at are not columns and take the dataclass defaults (None).
row_to_wager(wid, row) ==
    [wager_id |-> wid,
     creator_id |-> row.creator_id,
     creator_wallet |-> row.creator_wallet,
     creator_side |-> row.creator_side,
     amount |-> row.amount,
     status |-> row.status,
     creator_escrow_address |-> row.creator_escrow_address,
     creator_escrow_secret |-> row.creator_escrow_secret,
     creator_deposit_tx |-> row.creator_deposit_tx,
     acceptor_id |-> row.acceptor_id,
     acceptor_escrow_address |-> row.acceptor_escrow_address,
     acceptor_escrow_secret |-> row.acceptor_escrow_secret,
     acceptor_deposit_tx |-> row.acceptor_deposit_tx,
     game_id |-> row.game_id,
     acceptor_wallet |-> "none",
     accepting_at |-> -1]

\* The columns save_wager writes (created_at and expires_at are written too
\* and play no part here).
wager_columns(w) ==
    [creator_id |-> w.creator_id,
     creator_wallet |-> w.creator_wallet,
     creator_side |-> w.creator_side,
     amount |-> w.amount,
     status |-> w.status,
     creator_escrow_address |-> w.creator_escrow_address,
     creator_escrow_secret |-> w.creator_escrow_secret,
     creator_deposit_tx |-> w.creator_deposit_tx,
     acceptor_id |-> w.acceptor_id,
     acceptor_escrow_address |-> w.acceptor_escrow_address,
     acceptor_escrow_secret |-> w.acceptor_escrow_secret,
     acceptor_deposit_tx |-> w.acceptor_deposit_tx,
     game_id |-> w.game_id]

\* Database.save_wager: INSERT OR REPLACE of the whole row.
save_wager(tbl, w) == [tbl EXCEPT ![w.wager_id] = wager_columns(w)]

\* Database.get_wager, which api.py calls and repo.py does not define: the
\* row of that id read through _row_to_wager as the other readers of the
\* wagers table do, None for an unknown id.
wager_exists(wid) == wid \in WagerIds /\ wagers[wid].status # "absent"
get_wager(wid) == row_to_wager(wid, wagers[wid])

signature_never_used(sig) == FALSE

\* Database.signature_already_used
signature_already_used(sig) == used_signatures[sig] # 0

\* Database.save_used_signature: INSERT OR IGNORE.
save_used_signature(tbl, sig, used_for) ==
    IF tbl[sig] # 0 THEN tbl ELSE [tbl EXCEPT ![sig] = used_for]

\* A User as the callers build it: user_id "none" stands for None.
new_user(user_id, wallet) == [user_id |-> user_id, connected_wallet |-> wallet]

has_row(tbl, user_id) == \E r \in tbl : r.user_id = user_id

\* The value of cursor.lastrowid after an INSERT without user_id.
RowIds == <<"row1", "row2", "row3", "row4">>
lastrowid(tbl) ==
    LET used == {k \in DOMAIN RowIds : has_row(tbl, RowIds[k])}
    IN  RowIds[IF used = {} THEN 1
               ELSE (CHOOSE k \in used : \A x \in used : x <= k) + 1]

\* save_user as an upsert.
save_user_upsert(tbl, user) ==
    IF user.user_id # "none"
    THEN {r \in tbl : r.user_id # user.user_id} \cup {user}
    ELSE tbl \cup {[user EXCEPT !.user_id = lastrowid(tbl)]}

\* Database.save_user: with a user_id, UPDATE ... WHERE user_id = ? (no row
\* is written when none has that id); without one, INSERT of a new row.
save_user(tbl, user) ==
    IF user.user_id # "none"
    THEN {IF r.user_id = user.user_id THEN user ELSE r : r \in tbl}
    ELSE tbl \cup {[user EXCEPT !.user_id = lastrowid(tbl)]}

\* Database.get_user: None when no row has the id; for a row that exists
\* _row_to_user evaluates row.get("last_login") on a sqlite3.Row, which has
\* no such method, and the AttributeError leaves get_user.
get_user(tbl, user_id) ==
    IF ~ has_row(tbl, user_id)
    THEN [outcome |-> "None"]
    ELSE [outcome |-> "AttributeError"]

\* ensure_web_user: get_user, and save_user of a new User when it returned
\* None.
ensure_web_user(tbl, wallet) ==
    IF get_user(tbl, wallet_to_user_id(wallet)).outcome = "None"
    THEN save_user(tbl, new_user(wallet_to_user_id(wallet), wallet))
    ELSE tbl

\* verify_deposit_to_escrow: the transaction exists and has a transfer to
\* expected_recipient whose amount is within the tolerance.
verify_deposit_to_escrow(sig, expected_recipient, expected_amount) ==
    /\ sig \in 1..Len(chain)
    /\ chain[sig].dest = expected_recipient
    /\ LET d == chain[sig].amount - expected_amount
       IN  ~ ((IF d < 0 THEN -d ELSE d) > DepositTolerance)

\* RPCEndpoint.__init__; `streak` and `trial_streak` are history: the failures
\* recorded since the last recorded success, and the successes recorded since
\* the endpoint became Half-Open or last recorded a failure.
NewEndpoint ==
    [circuit_state |-> "closed", failure_count |-> 0, success_count |-> 0,
     total_requests |-> 0, last_failure_time |-> -1, streak |-> 0, trial_streak |-> 0]

FreeCall(c) ==
    /\ calls[c].op = "idle"
    /\ \A d \in CallIds : d < c => calls[d].op # "idle"

Init ==
    /\ wagers = [w \in WagerIds |-> NoRow]
    /\ used_signatures = [s \in SigIds |-> 0]
    /\ users = {}
    /\ chain = <<>>
    /\ balance = [e \in EscrowIds |-> 0]
    /\ transfers = [w \in WagerIds |-> <<>>]
    /\ nextEscrow = 1
    /\ nextWager = 1
    /\ nextGame = 1
    /\ games = {}
    /\ now = 0
    /\ calls = [c \in CallIds |-> NoCall]
    /\ resp = NoResp
    /\ soft_lock = [w \in WagerIds |-> NoLock]
    /\ acceptors = [w \in WagerIds |-> {}]
    /\ endpoints = [e \in EndpointIds |-> NewEndpoint]
    /\ rpc_calls = [o \in RpcCallIds |-> NoCall]
    /\ sol_calls = [k \in SolCallIds |-> NoCall]
    /\ ledger = [balance |-> SenderLamports, signatures |-> {}]
    /\ moved = [k \in SolCallIds |-> 0]

\* POST /api/wager/create
create_wager(creator_wallet, side, amount) ==
    /\ UNCHANGED rpcvars
    /\ nextWager <= MaxWagers
    /\ nextEscrow <= MaxEscrows
    /\ users' = ensure_web_user(users, creator_wallet)
    /\ IF side \notin Sides \/ amount <= 0
       THEN /\ resp' = [op |-> "create", result |-> "invalid"]
            /\ UNCHANGED <<wagers, nextEscrow, nextWager>>
       ELSE /\ wagers' = [wagers EXCEPT ![nextWager] =
                  [creator_id |-> wallet_to_user_id(creator_wallet),
                   creator_wallet |-> creator_wallet,
                   creator_side |-> side,
                   amount |-> amount,
                   status |-> "pending_deposit",
                   creator_escrow_address |-> nextEscrow,
                   creator_escrow_secret |-> nextEscrow,
                   creator_deposit_tx |-> 0,
                   acceptor_id |-> "none",
                   acceptor_escrow_address |-> 0,
                   acceptor_escrow_secret |-> 0,
                   acceptor_deposit_tx |-> 0,
                   game_id |-> 0]]
            /\ nextEscrow' = nextEscrow + 1
            /\ nextWager' = nextWager + 1
            /\ resp' = [op |-> "create", result |-> "ok"]
    /\ UNCHANGED <<used_signatures, chain, balance, transfers, nextGame, games, now, calls>>
    /\ UNCHANGED <<soft_lock, acceptors>>

\* A wallet pays `amount` into a generated escrow address: a confirmed
\* transaction with one transfer instruction.
Deposit(dest, amount) ==
    /\ UNCHANGED rpcvars
    /\ Len(chain) < MaxDeposits
    /\ dest < nextEscrow
    /\ chain' = Append(chain, [dest |-> dest, amount |-> amount])
    /\ balance' = [balance EXCEPT ![dest] = @ + amount]
    /\ resp' = NoResp
    /\ UNCHANGED <<wagers, used_signatures, users, transfers, nextEscrow,
                   nextWager, nextGame, games, now, calls>>
    /\ UNCHANGED <<soft_lock, acceptors>>

\* POST /api/wager/{wager_id}/verify-deposit, up to the await on the ledger.
verify_wager_deposit_begin(c, wid, sig) ==
    /\ UNCHANGED rpcvars
    /\ FreeCall(c)
    /\ IF ~ wager_exists(wid)
       THEN /\ resp' = [op |-> "verify", result |-> "not_found"]
            /\ UNCHANGED calls
       ELSE LET wager == get_wager(wid) IN
            IF wager.status # "pending_deposit"
            THEN /\ resp' = [op |-> "verify", result |-> "bad_status"]
                 /\ UNCHANGED calls
            ELSE IF signature_already_used(sig)
            THEN /\ resp' = [op |-> "verify", result |-> "replay"]
                 /\ UNCHANGED calls
            ELSE /\ calls' = [calls EXCEPT ![c] =
                        [op |-> "verify", pc |-> "verifying", wager |-> wager, sig |-> sig]]
                 /\ resp' = NoResp
    /\ UNCHANGED <<wagers, used_signatures, users, chain, balance, transfers,
                   nextEscrow, nextWager, nextGame, games, now>>
    /\ UNCHANGED <<soft_lock, acceptors>>

\* ... from the result of verify_deposit_to_escrow to the response.
verify_wager_deposit_end(c) ==
    /\ UNCHANGED rpcvars
    /\ calls[c].op = "verify"
    /\ LET wager == calls[c].wager
           sig == calls[c].sig
       IN  IF ~ verify_deposit_to_escrow(sig, wager.creator_escrow_address, wager.amount)
           THEN /\ resp' = [op |-> "verify", result |-> "invalid"]
                /\ UNCHANGED <<wagers, used_signatures>>
           ELSE /\ used_signatures' = save_used_signature(used_signatures, sig, wager.wager_id)
                /\ wagers' = save_wager(wagers,
                       [wager EXCEPT !.status = "open", !.creator_deposit_tx = sig])
                /\ resp' = [op |-> "verify", result |-> "ok"]
    /\ calls' = [calls EXCEPT ![c] = NoCall]
    /\ UNCHANGED <<users, chain, balance, transfers, nextEscrow, nextWager,
                   nextGame, games, now>>
    /\ UNCHANGED <<soft_lock, acceptors>>

\* ------------------------------------------------------------- users
\* The players of a wager are the User objects ensure_web_user builds, with
\* the dataclass defaults: no request obtains a User from a stored row.
tier(user_id) == "Starter"

referred_by(user_id) == "none"

\* tiers.TIERS[tier]["fee_rate"], in basis points
tier_fee_rate(t) ==
    CASE t = "Starter" -> 200
      [] t = "Bronze" -> 190
      [] t = "Silver" -> 180
      [] t = "Gold" -> 170
      [] t = "Diamond" -> 150

\* tiers.TIERS[tier]["referral_commission"], in basis points
referral_commission_rate(t) ==
    CASE t = "Starter" -> 0
      [] t = "Bronze" -> 250
      [] t = "Silver" -> 500
      [] t = "Gold" -> 750
      [] t = "Diamond" -> 1000

\* floor(a * n / d) without leaving 32 bits
MulDiv(a, n, d) == (a \div d) * n + ((a % d) * n) \div d

\* -------------------------------------------------------------- ledger
\* transfer_sol: the transfer goes through only if the source holds the
\* amount; `tag` names the call site.
CanTransfer(from, amount) == amount > 0 /\ balance[from] >= amount

Debit(bal, from, amount) == [bal EXCEPT ![from] = @ - amount]

Sent(log, wid, from, to, amount, tag) ==
    [log EXCEPT ![wid] = Append(@, [from |-> from, to |-> to, amount |-> amount, tag |-> tag])]

\* ---------------------------------------------------- settlement maths
\* flip_coin: first byte of sha256(blockhash + game_id); the digest is
\* stood in for by a fixed mixing function of the two arguments.
first_byte(blockhash, game_id) == (blockhash * 31 + game_id * 17) % 256

flip_coin_odd_heads(blockhash, game_id) ==
    IF first_byte(blockhash, game_id) % 2 = 0 THEN "tails" ELSE "heads"

flip_coin(blockhash, game_id) ==
    IF first_byte(blockhash, game_id) % 2 = 0 THEN "heads" ELSE "tails"

\* play_pvp_game_with_escrows: the acceptor gets the opposite side
acceptor_side(creator_side) == IF creator_side = "heads" THEN "tails" ELSE "heads"

\* play_pvp_game_with_escrows STEP 2: who won, whose escrow is whose.
creator_won(call) == call.result = call.wager.creator_side
winner_id(call) == IF creator_won(call) THEN call.wager.creator_id ELSE call.user
winner_wallet_creator(call) == call.wager.creator_wallet
winner_wallet(call) == IF creator_won(call) THEN call.wager.creator_wallet ELSE call.wallet
winner_escrow(call) ==
    IF creator_won(call) THEN call.wager.creator_escrow_address
    ELSE call.wager.acceptor_escrow_address
loser_escrow(call) ==
    IF creator_won(call) THEN call.wager.acceptor_escrow_address
    ELSE call.wager.creator_escrow_address

\* STEP 3 (TOKEN_ENABLED is False: the winner's volume tier alone)
winner_fee_rate(call) == tier_fee_rate(tier(winner_id(call)))
payout_per_escrow(call) ==
    MulDiv(call.wager.amount, BpDenominator - winner_fee_rate(call), BpDenominator)
fee_per_escrow(call) == MulDiv(call.wager.amount, winner_fee_rate(call), BpDenominator)

\* STEP 5: the referrer, when the winner has one and its row exists
referrer(call) ==
    IF /\ referred_by(winner_id(call)) # "none"
       /\ get_user(users, referred_by(winner_id(call))).outcome = "user"
    THEN referred_by(winner_id(call))
    ELSE "none"
referral_commission_amount(call) ==
    MulDiv(fee_per_escrow(call) * 2, referral_commission_rate(tier(referrer(call))), BpDenominator)
referral_escrow(user_id) == user_id

amount_to_collect_twice_rent(e) ==
    IF balance[e] <= 2 * RENT_EXEMPT_LAMPORTS THEN 0 ELSE balance[e] - 2 * RENT_EXEMPT_LAMPORTS

\* collect_fees_from_escrow: what the sweep sends (0: nothing to collect)
amount_to_collect(e) ==
    IF balance[e] <= RENT_EXEMPT_LAMPORTS THEN 0 ELSE balance[e] - RENT_EXEMPT_LAMPORTS

\* ------------------------------------------------------------- accept
atomic_accept_wager_unguarded(tbl, wid, acceptor_id) ==
    [tbl EXCEPT ![wid].status = "accepting", ![wid].acceptor_id = acceptor_id]

atomic_accept_wager_status_only(tbl, wid, acceptor_id) ==
    IF tbl[wid].status = "open"
    THEN [tbl EXCEPT ![wid].status = "accepting"]
    ELSE tbl

atomic_accept_wager_reaccept(tbl, wid, acceptor_id) ==
    IF tbl[wid].status \in {"open", "accepting"}
    THEN [tbl EXCEPT ![wid].status = "accepting", ![wid].acceptor_id = acceptor_id]
    ELSE tbl

\* Database.atomic_accept_wager: UPDATE wagers SET status = 'accepting',
\* acceptor_id = ? WHERE wager_id = ? AND status = 'open', under BEGIN EXCLUSIVE.
atomic_accept_wager(tbl, wid, acceptor_id) ==
    IF tbl[wid].status = "open"
    THEN [tbl EXCEPT ![wid].status = "accepting", ![wid].acceptor_id = acceptor_id]
    ELSE tbl

\* cursor.rowcount > 0: the UPDATE changed the row
rows_affected(tbl, updated) == IF updated # tbl THEN 1 ELSE 0

revert_wager_status_kept(w) == [w EXCEPT !.acceptor_id = "none"]

\* accept_wager_endpoint, except Exception: revert the wager
revert_wager(w) == [w EXCEPT !.status = "open", !.acceptor_id = "none"]

\* The handler's exit through `except Exception` at the await named `at`.
AcceptFails(c, at) ==
    /\ wagers' = save_wager(wagers, revert_wager(calls[c].wager))
    /\ calls' = [calls EXCEPT ![c] = NoCall]
    /\ resp' = [op |-> "accept", result |-> "error", at |-> at, paid |-> calls[c].paid,
                raced |-> calls[c].raced, wager_id |-> calls[c].wager.wager_id,
                user |-> calls[c].user]

\* The accept calls in flight on wager `wid` have seen a rival refused.
Raced(wid) ==
    [d \in CallIds |->
        IF calls[d].op = "accept" /\ calls[d].wager.wager_id = wid
        THEN [calls[d] EXCEPT !.raced = TRUE]
        ELSE calls[d]]

\* POST /api/wager/{wager_id}/accept, up to the await on the deposit check.
accept_wager_endpoint_begin(c, wid, acceptor_wallet, sig) ==
    /\ UNCHANGED rpcvars
    /\ FreeCall(c)
    /\ UNCHANGED <<used_signatures, games, chain, balance, transfers,
                   nextEscrow, nextWager, nextGame, now, soft_lock>>
    /\ IF ~ wager_exists(wid)
       THEN /\ users' = ensure_web_user(users, acceptor_wallet)
            /\ resp' = [op |-> "accept", result |-> "not_found"]
            /\ UNCHANGED <<wagers, calls, acceptors>>
       ELSE IF wagers[wid].creator_wallet = acceptor_wallet
       THEN /\ users' = ensure_web_user(users, acceptor_wallet)
            /\ resp' = [op |-> "accept", result |-> "self"]
            /\ UNCHANGED <<wagers, calls, acceptors>>
       ELSE
         LET user == wallet_to_user_id(acceptor_wallet)
             tbl == atomic_accept_wager(wagers, wid, user)
             wager == row_to_wager(wid, tbl[wid])
             call == [op |-> "accept", pc |-> "deposit", wager |-> wager,
                      user |-> user, wallet |-> acceptor_wallet, sig |-> sig,
                      game_id |-> 0, blockhash |-> 0, result |-> "none", paid |-> 0,
                      raced |-> FALSE]
         IN
         /\ users' = ensure_web_user(ensure_web_user(users, acceptor_wallet),
                                     wagers[wid].creator_wallet)
         /\ IF rows_affected(wagers, tbl) = 0
            THEN /\ resp' = [op |-> "accept", result |-> "conflict"]
                 /\ calls' = Raced(wid)
                 /\ UNCHANGED <<wagers, acceptors>>
            ELSE /\ acceptors' = [acceptors EXCEPT ![wid] = @ \cup {user}]
                 /\ IF signature_already_used(sig)
                    THEN \* the deposit check raises before its first await
                         /\ wagers' = save_wager(tbl, revert_wager(wager))
                         /\ calls' = calls
                         /\ resp' = [op |-> "accept", result |-> "error",
                                     at |-> "signature", paid |-> 0, raced |-> FALSE,
                                     wager_id |-> wid, user |-> user]
                    ELSE /\ wagers' = tbl
                         /\ calls' = [calls EXCEPT ![c] = call]
                         /\ resp' = NoResp

\* verify_escrow_deposit: the signature's transaction paid the wager amount
\* into the escrow that prepare-accept generated.
verify_escrow_deposit(sig, escrow_address, amount) ==
    verify_deposit_to_escrow(sig, escrow_address, amount)

\* create_escrow_wallet for a web user: the signature is checked against a
\* keypair generated in this very call, for amount plus transaction fee.
create_escrow_wallet(sig, amount) ==
    verify_deposit_to_escrow(sig, nextEscrow, amount + TRANSACTION_FEE)

\* accept_wager_endpoint: the escrow of prepare-accept is used when the row
\* has one, a new one is created otherwise.
acceptor_deposit_valid(call) ==
    IF call.wager.acceptor_escrow_address = 0 \/ call.wager.acceptor_escrow_secret = 0
    THEN create_escrow_wallet(call.sig, call.wager.amount)
    ELSE verify_escrow_deposit(call.sig, call.wager.acceptor_escrow_address,
                               call.wager.amount)

\* ... the deposit check returns; play_pvp_game_with_escrows starts and
\* awaits get_latest_blockhash.
accept_wager_endpoint_deposit(c) ==
    /\ UNCHANGED rpcvars
    /\ calls[c].op = "accept" /\ calls[c].pc = "deposit"
    /\ UNCHANGED <<users, games, chain, balance, transfers, nextEscrow, nextWager, now>>
    /\ IF ~ acceptor_deposit_valid(calls[c])
       THEN /\ AcceptFails(c, "deposit")
            /\ UNCHANGED <<used_signatures, nextGame>>
       ELSE /\ used_signatures' = save_used_signature(used_signatures, calls[c].sig,
                                                      calls[c].wager.wager_id)
            /\ calls' = [calls EXCEPT ![c].pc = "blockhash",
                                      ![c].wager.acceptor_deposit_tx = calls[c].sig,
                                      ![c].game_id = nextGame]
            /\ nextGame' = nextGame + 1
            /\ resp' = NoResp
            /\ UNCHANGED wagers
    /\ UNCHANGED <<soft_lock, acceptors>>

\* ... get_latest_blockhash returns (or raises); flip, winner, amounts.
accept_wager_endpoint_flip(c, blockhash, rpc_ok) ==
    /\ UNCHANGED rpcvars
    /\ calls[c].op = "accept" /\ calls[c].pc = "blockhash"
    /\ UNCHANGED <<used_signatures, users, games, chain, balance, transfers,
                   nextEscrow, nextWager, nextGame, now>>
    /\ IF ~ rpc_ok
       THEN AcceptFails(c, "blockhash")
       ELSE /\ calls' = [calls EXCEPT ![c].pc = "pay_winner",
                                      ![c].blockhash = blockhash,
                                      ![c].result = flip_coin(blockhash, calls[c].game_id)]
            /\ resp' = NoResp
            /\ UNCHANGED wagers
    /\ UNCHANGED <<soft_lock, acceptors>>

\* One awaited transfer_sol of play_pvp_game_with_escrows: the transfer is
\* made and the coroutine goes on to `nextpc`, or it raises and the
\* handler leaves through `except Exception`.
SettlementTransfer_logged(c, from, to, amount, tag, nextpc, ok) ==
    /\ IF ok /\ CanTransfer(from, amount)
       THEN /\ balance' = Debit(balance, from, amount)
            /\ transfers' = Sent(transfers, calls[c].wager.wager_id, from, to, amount, tag)
       ELSE UNCHANGED <<balance, transfers>>
    /\ calls' = [calls EXCEPT ![c].pc = nextpc, ![c].paid = @ + 1]
    /\ resp' = NoResp
    /\ UNCHANGED wagers

SettlementTransfer(c, from, to, amount, tag, nextpc, ok) ==
    IF ok /\ CanTransfer(from, amount)
    THEN /\ balance' = Debit(balance, from, amount)
         /\ transfers' = Sent(transfers, calls[c].wager.wager_id, from, to, amount, tag)
         /\ calls' = [calls EXCEPT ![c].pc = nextpc, ![c].paid = @ + 1]
         /\ resp' = NoResp
         /\ UNCHANGED wagers
    ELSE /\ AcceptFails(c, tag)
         /\ UNCHANGED <<balance, transfers>>

play_pvp_game_sweep_before_payout(c, ok) ==
    /\ UNCHANGED rpcvars
    /\ calls[c].op = "accept" /\ calls[c].pc = "pay_winner"
    /\ SettlementTransfer(c, winner_escrow(calls[c]), "treasury",
                          amount_to_collect(winner_escrow(calls[c])), "sweep", "pay_loser", ok)
    /\ UNCHANGED <<used_signatures, users, games, chain, nextEscrow, nextWager, nextGame, now>>
    /\ UNCHANGED <<soft_lock, acceptors>>

\* STEP 4, payout from the winner's own escrow
play_pvp_game_pay_winner(c, ok) ==
    /\ UNCHANGED rpcvars
    /\ calls[c].op = "accept" /\ calls[c].pc = "pay_winner"
    /\ SettlementTransfer(c, winner_escrow(calls[c]), winner_wallet(calls[c]),
                          payout_per_escrow(calls[c]), "payout", "pay_loser", ok)
    /\ UNCHANGED <<used_signatures, users, games, chain, nextEscrow, nextWager, nextGame, now>>
    /\ UNCHANGED <<soft_lock, acceptors>>

\* STEP 4, payout from the loser's escrow
play_pvp_game_pay_loser(c, ok) ==
    /\ UNCHANGED rpcvars
    /\ calls[c].op = "accept" /\ calls[c].pc = "pay_loser"
    /\ SettlementTransfer(c, loser_escrow(calls[c]), winner_wallet(calls[c]),
                          payout_per_escrow(calls[c]), "payout",
                          IF referrer(calls[c]) # "none" THEN "commission" ELSE "sweep_winner",
                          ok)
    /\ UNCHANGED <<used_signatures, users, games, chain, nextEscrow, nextWager, nextGame, now>>
    /\ UNCHANGED <<soft_lock, acceptors>>

\* STEP 5, referral commission from the loser's escrow; a failure is
\* logged and the game goes on.
play_pvp_game_commission(c, ok) ==
    /\ UNCHANGED rpcvars
    /\ calls[c].op = "accept" /\ calls[c].pc = "commission"
    /\ LET from == loser_escrow(calls[c])
           amount == referral_commission_amount(calls[c])
       IN  IF ok /\ CanTransfer(from, amount)
           THEN /\ balance' = Debit(balance, from, amount)
                /\ transfers' = Sent(transfers, calls[c].wager.wager_id, from,
                                     referral_escrow(referrer(calls[c])), amount, "commission")
                /\ calls' = [calls EXCEPT ![c].pc = "sweep_winner", ![c].paid = @ + 1]
           ELSE /\ calls' = [calls EXCEPT ![c].pc = "sweep_winner"]
                /\ UNCHANGED <<balance, transfers>>
    /\ resp' = NoResp
    /\ UNCHANGED <<wagers, used_signatures, users, games, chain, nextEscrow, nextWager,
                   nextGame, now>>
    /\ UNCHANGED <<soft_lock, acceptors>>

\* STEP 6, collect_fees_from_escrow on the winner's escrow
play_pvp_game_sweep_winner(c, ok) ==
    /\ UNCHANGED rpcvars
    /\ calls[c].op = "accept" /\ calls[c].pc = "sweep_winner"
    /\ LET from == winner_escrow(calls[c]) IN
       IF ok /\ amount_to_collect(from) = 0
       THEN /\ calls' = [calls EXCEPT ![c].pc = "sweep_loser"]
            /\ resp' = NoResp
            /\ UNCHANGED <<wagers, balance, transfers>>
       ELSE SettlementTransfer(c, from, "treasury", amount_to_collect(from), "sweep",
                               "sweep_loser", ok)
    /\ UNCHANGED <<used_signatures, users, games, chain, nextEscrow, nextWager, nextGame, now>>
    /\ UNCHANGED <<soft_lock, acceptors>>

\* accept_wager_endpoint after play_pvp_game_with_escrows returned
accepted_wager(call) ==
    [call.wager EXCEPT !.status = "accepted", !.game_id = call.game_id]

game_row(call) ==
    [game_id |-> call.game_id, wager_id |-> call.wager.wager_id,
     player1_id |-> call.wager.creator_id,
     player1_side |-> call.wager.creator_side,
     player2_id |-> call.user,
     player2_side |-> acceptor_side(call.wager.creator_side),
     blockhash |-> call.blockhash, result |-> call.result,
     winner_id |-> winner_id(call)]

\* STEP 6 on the loser's escrow, then the rest of the handler: the wager
\* and the game are saved and the response returned.
play_pvp_game_sweep_loser(c, ok) ==
    /\ UNCHANGED rpcvars
    /\ calls[c].op = "accept" /\ calls[c].pc = "sweep_loser"
    /\ LET from == loser_escrow(calls[c])
           amount == amount_to_collect(from)
       IN  IF ok /\ (amount = 0 \/ CanTransfer(from, amount))
           THEN /\ IF amount = 0
                   THEN UNCHANGED <<balance, transfers>>
                   ELSE /\ balance' = Debit(balance, from, amount)
                        /\ transfers' = Sent(transfers, calls[c].wager.wager_id, from,
                                             "treasury", amount, "sweep")
                /\ wagers' = save_wager(wagers, accepted_wager(calls[c]))
                /\ games' = games \cup {game_row(calls[c])}
                /\ calls' = [calls EXCEPT ![c] = NoCall]
                /\ resp' = [op |-> "accept", result |-> "ok", user |-> calls[c].user,
                            wager_id |-> calls[c].wager.wager_id,
                            raced |-> calls[c].raced]
           ELSE /\ AcceptFails(c, "sweep")
                /\ UNCHANGED <<balance, transfers, games>>
    /\ UNCHANGED <<used_signatures, users, chain, nextEscrow, nextWager, nextGame, now>>
    /\ UNCHANGED <<soft_lock, acceptors>>

\* POST /api/wager/{wager_id}/prepare-accept
prepare_accept_wager(wid, acceptor_wallet) ==
    /\ UNCHANGED rpcvars
    /\ nextEscrow <= MaxEscrows
    /\ IF ~ wager_exists(wid)
       THEN /\ resp' = [op |-> "prepare", result |-> "not_found"]
            /\ UNCHANGED <<wagers, nextEscrow, soft_lock>>
       ELSE LET wager == get_wager(wid) IN
            IF wager.status # "open"
            THEN /\ resp' = [op |-> "prepare", result |-> "bad_status"]
                 /\ UNCHANGED <<wagers, nextEscrow, soft_lock>>
            ELSE IF wager.creator_wallet = acceptor_wallet
            THEN /\ resp' = [op |-> "prepare", result |-> "self"]
                 /\ UNCHANGED <<wagers, nextEscrow, soft_lock>>
            ELSE /\ wagers' = save_wager(wagers,
                       [wager EXCEPT !.acceptor_escrow_address = nextEscrow,
                                     !.acceptor_escrow_secret = nextEscrow,
                                     !.acceptor_wallet = acceptor_wallet,
                                     !.accepting_at = now])
                 /\ soft_lock' = [soft_lock EXCEPT ![wid] =
                        [acceptor_wallet |-> acceptor_wallet, accepting_at |-> now]]
                 /\ nextEscrow' = nextEscrow + 1
                 /\ resp' = [op |-> "prepare", result |-> "ok"]
    /\ UNCHANGED <<used_signatures, users, games, chain, balance, transfers,
                   nextWager, nextGame, now, calls>>
    /\ UNCHANGED acceptors

\* POST /api/wager/{wager_id}/abandon-accept
abandon_accept_wager(wid, acceptor_wallet) ==
    /\ UNCHANGED rpcvars
    /\ IF ~ wager_exists(wid)
       THEN /\ resp' = [op |-> "abandon", result |-> "not_found", wager_id |-> wid,
                         wallet |-> acceptor_wallet]
            /\ UNCHANGED wagers
       ELSE LET wager == get_wager(wid) IN
            IF wager.acceptor_wallet # acceptor_wallet
            THEN /\ resp' = [op |-> "abandon", result |-> "forbidden", wager_id |-> wid,
                         wallet |-> acceptor_wallet]
                 /\ UNCHANGED wagers
            ELSE /\ wagers' = save_wager(wagers,
                       [wager EXCEPT !.accepting_at = -1,
                                     !.acceptor_wallet = "none",
                                     !.acceptor_escrow_address = 0,
                                     !.acceptor_escrow_secret = 0])
                 /\ resp' = [op |-> "abandon", result |-> "ok", wager_id |-> wid,
                         wallet |-> acceptor_wallet]
    /\ UNCHANGED <<used_signatures, users, games, chain, balance, transfers, nextEscrow,
                   nextWager, nextGame, now, calls, soft_lock, acceptors>>

\* The soft-lock test of get_open_wagers and cancel_wager_endpoint on a
\* loaded wager.
is_accepting(wager) ==
    /\ wager.accepting_at # -1
    /\ wager.acceptor_wallet # "none"
    /\ now - wager.accepting_at < ACCEPTING_TIMEOUT_SECONDS

lock_expired(wager) ==
    /\ wager.accepting_at # -1
    /\ wager.acceptor_wallet # "none"
    /\ ~ (now - wager.accepting_at < ACCEPTING_TIMEOUT_SECONDS)

\* GET /api/wagers/open: an expired soft lock found on a row is cleared.
get_open_wagers ==
    /\ UNCHANGED rpcvars
    /\ wagers' = [wid \in WagerIds |->
          IF wagers[wid].status = "open" /\ lock_expired(get_wager(wid))
          THEN wager_columns([get_wager(wid) EXCEPT !.acceptor_escrow_address = 0,
                                                    !.acceptor_escrow_secret = 0])
          ELSE wagers[wid]]
    /\ resp' = [op |-> "list", result |-> "ok",
                ids |-> {wid \in WagerIds : wagers[wid].status = "open"},
                accepting |-> {wid \in WagerIds : /\ wagers[wid].status = "open"
                                                   /\ is_accepting(get_wager(wid))}]
    /\ UNCHANGED <<used_signatures, users, games, chain, balance, transfers, nextEscrow,
                   nextWager, nextGame, now, calls, soft_lock, acceptors>>

\* datetime.utcnow() advances.
Tick ==
    /\ UNCHANGED rpcvars
    /\ now < MaxTicks * TickSeconds
    /\ now' = now + TickSeconds
    /\ resp' = NoResp
    /\ UNCHANGED <<wagers, used_signatures, users, games, chain, balance, transfers,
                   nextEscrow, nextWager, nextGame, calls, soft_lock, acceptors>>

\* The lock prepare-accept placed on the wager is held by someone other
\* than `wallet` and is younger than the timeout.
LockedByOther(wid, wallet) ==
    /\ soft_lock[wid].acceptor_wallet \notin {"none", wallet}
    /\ now - soft_lock[wid].accepting_at < ACCEPTING_TIMEOUT_SECONDS

\* POST /api/wager/cancel, up to the await on refund_from_escrow.
cancel_wager_endpoint_begin(c, wid, creator_wallet) ==
    /\ UNCHANGED rpcvars
    /\ FreeCall(c)
    /\ users' = ensure_web_user(users, creator_wallet)
    /\ IF ~ (wager_exists(wid) /\ wagers[wid].status = "open")
       THEN /\ resp' = [op |-> "cancel", result |-> "not_found"]
            /\ UNCHANGED <<wagers, calls>>
       ELSE LET wager == get_wager(wid) IN
            IF wager.creator_wallet # creator_wallet
            THEN /\ resp' = [op |-> "cancel", result |-> "forbidden"]
                 /\ UNCHANGED <<wagers, calls>>
            ELSE IF wager.status # "open"
            THEN /\ resp' = [op |-> "cancel", result |-> "bad_status"]
                 /\ UNCHANGED <<wagers, calls>>
            ELSE IF is_accepting(wager)
            THEN /\ resp' = [op |-> "cancel", result |-> "accepting"]
                 /\ UNCHANGED <<wagers, calls>>
            ELSE IF wager.creator_escrow_address = 0 \/ wager.creator_escrow_secret = 0
            THEN /\ wagers' = save_wager(wagers, [wager EXCEPT !.status = "cancelled"])
                 /\ resp' = [op |-> "cancel", result |-> "ok", wager_id |-> wid,
                             refund |-> 0, fee |-> 0, locked |-> LockedByOther(wid, creator_wallet)]
                 /\ UNCHANGED calls
            ELSE /\ calls' = [calls EXCEPT ![c] =
                        [op |-> "cancel", pc |-> "refund", wager |-> wager,
                         wallet |-> creator_wallet, refund |-> 0,
                         locked |-> LockedByOther(wid, creator_wallet)]]
                 /\ resp' = NoResp
                 /\ UNCHANGED wagers
    /\ UNCHANGED <<used_signatures, games, chain, balance, transfers, nextEscrow,
                   nextWager, nextGame, now, soft_lock, acceptors>>

\* refund_from_escrow: the wager amount goes to the creator, or the
\* transfer raises and the handler answers 500.
refund_from_escrow_refund(c, ok) ==
    /\ UNCHANGED rpcvars
    /\ calls[c].op = "cancel" /\ calls[c].pc = "refund"
    /\ LET wager == calls[c].wager
           from == wager.creator_escrow_address
       IN  IF ok /\ CanTransfer(from, wager.amount)
           THEN /\ balance' = Debit(balance, from, wager.amount)
                /\ transfers' = Sent(transfers, wager.wager_id, from, calls[c].wallet,
                                     wager.amount, "refund")
                /\ calls' = [calls EXCEPT ![c].pc = "fee", ![c].refund = wager.amount]
                /\ resp' = NoResp
           ELSE /\ calls' = [calls EXCEPT ![c] = NoCall]
                /\ resp' = [op |-> "cancel", result |-> "error", wager_id |-> wager.wager_id,
                            refund |-> 0, locked |-> calls[c].locked]
                /\ UNCHANGED <<balance, transfers>>
    /\ UNCHANGED <<wagers, used_signatures, users, games, chain, nextEscrow, nextWager,
                   nextGame, now, soft_lock, acceptors>>

amount_to_treasury_fixed_fee(e) ==
    IF balance[e] <= RENT_EXEMPT_LAMPORTS THEN 0
    ELSE IF balance[e] - RENT_EXEMPT_LAMPORTS > TRANSACTION_FEE THEN TRANSACTION_FEE
    ELSE balance[e] - RENT_EXEMPT_LAMPORTS

\* refund_from_escrow: what goes to the treasury after the refund
amount_to_treasury(e) ==
    IF balance[e] <= RENT_EXEMPT_LAMPORTS THEN 0 ELSE balance[e] - RENT_EXEMPT_LAMPORTS

\* refund_from_escrow: the remainder goes to the treasury; then
\* cancel_wager_endpoint marks the wager cancelled and answers.
refund_from_escrow_fee(c, ok) ==
    /\ UNCHANGED rpcvars
    /\ calls[c].op = "cancel" /\ calls[c].pc = "fee"
    /\ LET wager == calls[c].wager
           from == wager.creator_escrow_address
           amount == amount_to_treasury(from)
       IN  IF ok /\ (amount = 0 \/ CanTransfer(from, amount))
           THEN /\ IF amount = 0
                   THEN UNCHANGED <<balance, transfers>>
                   ELSE /\ balance' = Debit(balance, from, amount)
                        /\ transfers' = Sent(transfers, wager.wager_id, from, "treasury",
                                             amount, "fee")
                /\ wagers' = save_wager(wagers, [wager EXCEPT !.status = "cancelled"])
                /\ resp' = [op |-> "cancel", result |-> "ok", wager_id |-> wager.wager_id,
                            refund |-> calls[c].refund, fee |-> amount,
                            locked |-> calls[c].locked]
           ELSE /\ resp' = [op |-> "cancel", result |-> "error", wager_id |-> wager.wager_id,
                            refund |-> calls[c].refund, locked |-> calls[c].locked]
                /\ UNCHANGED <<wagers, balance, transfers>>
    /\ calls' = [calls EXCEPT ![c] = NoCall]
    /\ UNCHANGED <<used_signatures, users, games, chain, nextEscrow, nextWager,
                   nextGame, now, soft_lock, acceptors>>

\* POST /api/admin/wager/{wager_id}/cancel
admin_cancel_wager(wid) ==
    /\ UNCHANGED rpcvars
    /\ IF ~ wager_exists(wid)
       THEN /\ resp' = [op |-> "admin_cancel", result |-> "not_found"]
            /\ UNCHANGED wagers
       ELSE /\ wagers' = save_wager(wagers, [get_wager(wid) EXCEPT !.status = "cancelled"])
            /\ resp' = [op |-> "admin_cancel", result |-> "ok"]
    /\ UNCHANGED <<used_signatures, users, games, chain, balance, transfers, nextEscrow,
                   nextWager, nextGame, now, calls, soft_lock, acceptors>>

\* admin_refund_wager: what one escrow sends back (0: balance too low)
admin_refund_amount(e) ==
    IF balance[e] >= AdminRefundMinimum THEN balance[e] - AdminRefundReserve ELSE 0

\* get_escrow_sender: the source of a transfer to the escrow, if there is one
get_escrow_sender(e) ==
    IF \E s \in 1..Len(chain) : chain[s].dest = e THEN "sender" ELSE "none"

\* POST /api/admin/wager/{wager_id}/refund, up to the first balance query.
admin_refund_wager_begin(c, wid) ==
    /\ UNCHANGED rpcvars
    /\ FreeCall(c)
    /\ IF ~ wager_exists(wid)
       THEN /\ resp' = [op |-> "admin_refund", result |-> "not_found"]
            /\ UNCHANGED calls
       ELSE /\ calls' = [calls EXCEPT ![c] =
                   [op |-> "admin_refund", pc |-> "creator", wager |-> get_wager(wid),
                    total_refunded |-> 0]]
            /\ resp' = NoResp
    /\ UNCHANGED <<wagers, used_signatures, users, games, chain, balance, transfers,
                   nextEscrow, nextWager, nextGame, now, soft_lock, acceptors>>

\* ... the creator escrow is emptied towards the creator; an exception is
\* recorded in the results and the handler goes on.
admin_refund_wager_creator(c, ok) ==
    /\ UNCHANGED rpcvars
    /\ calls[c].op = "admin_refund" /\ calls[c].pc = "creator"
    /\ LET wager == calls[c].wager
           from == wager.creator_escrow_address
           amount == IF from = 0 THEN 0 ELSE admin_refund_amount(from)
       IN  IF ok /\ amount > 0 /\ CanTransfer(from, amount)
           THEN /\ balance' = Debit(balance, from, amount)
                /\ transfers' = Sent(transfers, wager.wager_id, from, wager.creator_wallet,
                                     amount, "admin_refund")
                /\ calls' = [calls EXCEPT ![c].pc = "acceptor", ![c].total_refunded = @ + amount]
           ELSE /\ calls' = [calls EXCEPT ![c].pc = "acceptor"]
                /\ UNCHANGED <<balance, transfers>>
    /\ resp' = NoResp
    /\ UNCHANGED <<wagers, used_signatures, users, games, chain, nextEscrow, nextWager,
                   nextGame, now, soft_lock, acceptors>>

\* ... the acceptor escrow is emptied towards the wallet that funded it;
\* if anything was refunded the wager is saved as refunded.
admin_refund_wager_acceptor(c, ok) ==
    /\ UNCHANGED rpcvars
    /\ calls[c].op = "admin_refund" /\ calls[c].pc = "acceptor"
    /\ LET wager == calls[c].wager
           from == wager.acceptor_escrow_address
           to == IF wager.acceptor_wallet # "none" THEN wager.acceptor_wallet
                 ELSE IF from = 0 THEN "none" ELSE get_escrow_sender(from)
           amount == IF from = 0 \/ to = "none" THEN 0 ELSE admin_refund_amount(from)
           sent == ok /\ amount > 0 /\ CanTransfer(from, amount)
           total_refunded == calls[c].total_refunded + (IF sent THEN amount ELSE 0)
       IN  /\ IF sent
              THEN /\ balance' = Debit(balance, from, amount)
                   /\ transfers' = Sent(transfers, wager.wager_id, from, to, amount,
                                        "admin_refund")
              ELSE UNCHANGED <<balance, transfers>>
           /\ IF total_refunded > 0
              THEN wagers' = save_wager(wagers, [wager EXCEPT !.status = "refunded"])
              ELSE UNCHANGED wagers
           /\ resp' = [op |-> "admin_refund", result |-> "ok",
                       wager_id |-> wager.wager_id, total_refunded |-> total_refunded]
    /\ calls' = [calls EXCEPT ![c] = NoCall]
    /\ UNCHANGED <<used_signatures, users, games, chain, nextEscrow, nextWager,
                   nextGame, now, soft_lock, acceptors>>

\* -------------------------------------------------------- specifications
MaxSettled == 1
Acceptors == Wallets \ CreatorWallets
Created == 1..(nextWager - 1)
OneCall == {1}

\* The requests that fund a wager; C is the set of request slots.
Funding(C) ==
    \/ \E cw \in CreatorWallets, s \in Sides, a \in Amounts :
           nextWager <= MaxSettled /\ create_wager(cw, s, a)
    \/ \E e \in EscrowIds : Deposit(e, Stake)
    \/ \E c \in C, w \in Created, s \in SigIds : verify_wager_deposit_begin(c, w, s)
    \/ \E c \in C : verify_wager_deposit_end(c)
    \/ \E w \in Created, a \in Acceptors : prepare_accept_wager(w, a)

\* The accept request and the settlement it runs.
Accepting(C) ==
    \/ \E c \in C, w \in Created, a \in Acceptors, s \in SigIds :
           accept_wager_endpoint_begin(c, w, a, s)
    \/ \E c \in C : accept_wager_endpoint_deposit(c)
    \/ \E c \in C, b \in Blockhashes, ok \in BOOLEAN : accept_wager_endpoint_flip(c, b, ok)
    \/ \E c \in C, ok \in BOOLEAN : play_pvp_game_pay_winner(c, ok)
    \/ \E c \in C, ok \in BOOLEAN : play_pvp_game_pay_loser(c, ok)
    \/ \E c \in C, ok \in BOOLEAN : play_pvp_game_sweep_winner(c, ok)
    \/ \E c \in C, ok \in BOOLEAN : play_pvp_game_sweep_loser(c, ok)

\* Acceptance and settlement of one wager.
Next ==
    \/ Funding(OneCall)
    \/ Accepting(CallIds)

Spec == Init /\ [][Next]_vars

\* Deposit confirmation over two wagers.
NextDeposit ==
    \/ \E cw \in CreatorWallets, s \in Sides, a \in Amounts : create_wager(cw, s, a)
    \/ \E e \in EscrowIds, a \in DepositAmounts : Deposit(e, a)
    \/ \E c \in CallIds, w \in WagerIds, s \in SigIds : verify_wager_deposit_begin(c, w, s)
    \/ \E c \in CallIds : verify_wager_deposit_end(c)

SpecDeposit == Init /\ [][NextDeposit]_vars

\* Cancellation of one wager under the soft lock of prepare-accept.
NextCancel ==
    \/ Funding(OneCall)
    \/ Tick
    \/ get_open_wagers
    \/ \E w \in Created, a \in Acceptors : abandon_accept_wager(w, a)
    \/ \E c \in CallIds, w \in Created, a \in Wallets : cancel_wager_endpoint_begin(c, w, a)
    \/ \E c \in CallIds, ok \in BOOLEAN : refund_from_escrow_refund(c, ok)
    \/ \E c \in CallIds, ok \in BOOLEAN : refund_from_escrow_fee(c, ok)

SpecCancel == Init /\ [][NextCancel]_vars

\* The admin operations next to acceptance, one request at a time.
NextAdmin ==
    \/ Funding(OneCall)
    \/ Accepting(OneCall)
    \/ \E w \in Created : admin_cancel_wager(w)
    \/ \E c \in OneCall, w \in Created : admin_refund_wager_begin(c, w)
    \/ \E c \in OneCall, ok \in BOOLEAN : admin_refund_wager_creator(c, ok)
    \/ \E c \in OneCall, ok \in BOOLEAN : admin_refund_wager_acceptor(c, ok)

SpecAdmin == Init /\ [][NextAdmin]_vars

\* ----------------------------------------------------------- properties
Terminal == {"accepted", "cancelled", "refunded"}

\* C1: among the concurrent accept calls on an open wager exactly one
\* succeeds and the others get a conflict: the call whose rivals were
\* answered with a conflict does not fail.
C1_RaceHasOneWinner ==
    (resp.op = "accept" /\ resp.result = "error") => ~ resp.raced

\* A step that is the atomic accept of a non-creator on an existing wager.
AcceptArrives(c, w, a, s) ==
    /\ accept_wager_endpoint_begin(c, w, a, s)
    /\ wager_exists(w)
    /\ wagers[w].creator_wallet # a

\* C1 (amended): an accept call is admitted only when the stored status is
\* Open, and admission stores Accepting with the caller's id; every call
\* that finds another status is answered with a conflict and changes
\* nothing, so every rival of an admitted call is refused while the row
\* stays Accepting; an admitted call that succeeds stores Accepted with its
\* own id as acceptor_id; it may also fail, and then the race ends without
\* a success.
C1_AtomicAcceptRace ==
    [][/\ \A c \in CallIds, w \in WagerIds, a \in Wallets, s \in SigIds :
            AcceptArrives(c, w, a, s) =>
                IF wagers[w].status = "open"
                THEN /\ resp'.result # "conflict"
                     /\ wallet_to_user_id(a) \in acceptors'[w]
                     /\ calls'[c].op = "accept" =>
                            /\ wagers'[w].status = "accepting"
                            /\ wagers'[w].acceptor_id = wallet_to_user_id(a)
                ELSE /\ resp'.result = "conflict"
                     /\ wagers' = wagers
                     /\ calls'[c] = calls[c]
       /\ \A c \in CallIds :
            (calls[c].op = "accept" /\ calls'[c].op = "idle") =>
                /\ resp'.op = "accept"
                /\ resp'.result \in {"ok", "error"}
                /\ resp'.result = "ok" =>
                       /\ wagers'[calls[c].wager.wager_id].status = "accepted"
                       /\ wagers'[calls[c].wager.wager_id].acceptor_id = calls[c].user]_vars

\* A race was decided: the admitted call saw a rival refused and succeeded.
C1_Witness == resp.op = "accept" /\ resp.result = "ok" /\ resp.raced

\* The payout transfers escrow `e` made for wager `w`.
Payouts(w, e) ==
    {i \in 1..Len(transfers[w]) : transfers[w][i].tag = "payout" /\ transfers[w][i].from = e}

\* C2: settlement is exactly-once per wager: over the wager's lifetime each
\* of its escrows makes its payout transfer to a winner at most once.
C2_PayoutAtMostOnce ==
    \A w \in WagerIds, e \in EscrowIds : Cardinality(Payouts(w, e)) <= 1

\* A verify-deposit call arrives with a signature that is in the
\* used-signature table, for an existing wager.
ReplayArrives(c, w, s) ==
    /\ verify_wager_deposit_begin(c, w, s)
    /\ wager_exists(w)
    /\ used_signatures[s] # 0

\* C3: a verify-deposit call that carries a signature already consumed is
\* rejected as a replay and changes no wager row and no used-signature row.
C3_RejectedAsReplay ==
    [][\A c \in CallIds, w \in WagerIds, s \in SigIds :
          ReplayArrives(c, w, s) =>
              /\ resp'.result = "replay"
              /\ wagers' = wagers
              /\ used_signatures' = used_signatures]_vars

\* C3 (amended): a successful verify-deposit call records its signature;
\* a later call with a recorded signature never succeeds and changes no
\* wager row and no used-signature row; it is rejected as a replay when its
\* wager awaits a deposit, and with the status error otherwise (always so
\* on the wager the signature was confirmed for).
C3_UsedSignatureRejected ==
    [][/\ \A c \in CallIds, w \in WagerIds, s \in SigIds :
             ReplayArrives(c, w, s) =>
                 /\ resp'.result =
                      (IF wagers[w].status = "pending_deposit" THEN "replay" ELSE "bad_status")
                 /\ wagers' = wagers
                 /\ used_signatures' = used_signatures
                 /\ calls' = calls
       /\ \A c \in CallIds :
             (verify_wager_deposit_end(c) /\ resp'.result = "ok") =>
                 /\ used_signatures'[calls[c].sig] # 0
                 /\ wagers[calls[c].wager.wager_id].status = "pending_deposit"
                        => wagers'[calls[c].wager.wager_id].status = "open"]_vars

\* A signature confirmed for one wager has just been refused on another.
C3_Witness ==
    /\ resp.op = "verify" /\ resp.result = "replay"
    /\ \E s \in SigIds : used_signatures[s] # 0

\* C4: when an accept call fails after its atomic accept succeeded, the
\* stored status is Open and acceptor_id is null as the call returns; no
\* failed accept leaves the wager Accepting.
C4_FailedAcceptReverts ==
    (resp.op = "accept" /\ resp.result = "error") =>
        /\ wagers[resp.wager_id].status = "open"
        /\ wagers[resp.wager_id].acceptor_id = "none"

\* An accept has just failed on a ledger error in the middle of settlement.
C4_Witness == resp.op = "accept" /\ resp.result = "error" /\ resp.at = "sweep"

\* C5: when settlement aborts after one of its transfers went through, the
\* wager is left flagged: neither Accepted nor in a state a new acceptor
\* can accept.
C5_PartialSettlementFlagged ==
    (resp.op = "accept" /\ resp.result = "error" /\ resp.paid >= 1) =>
        wagers[resp.wager_id].status \notin {"open", "accepted"}

\* A step of accept, prepare-accept, abandon-accept, cancel, the open-wager
\* list, admin refund or admin cancel: any step but the return of a
\* verify-deposit call.
ListedOperation == \A c \in CallIds : ~ (calls[c].op = "verify" /\ calls'[c].op = "idle")

\* C6: Accepted, Cancelled and Refunded are absorbing: no operation changes
\* the status of a wager that has one of them.
C6_TerminalAbsorbing ==
    [][ListedOperation =>
          \A w \in WagerIds :
              wagers[w].status \in Terminal => wagers'[w].status = wagers[w].status]_vars

\* C7: over a wager's lifetime at most one distinct non-null acceptor_id is
\* ever stored on it.
C7_OneAcceptorEver == \A w \in WagerIds : Cardinality(acceptors[w]) <= 1

\* The acceptor_id stored on wager `w` in table `tbl`, as a set.
StoredAcceptor(tbl, w) ==
    IF tbl[w].status = "absent" \/ tbl[w].acceptor_id = "none" THEN {} ELSE {tbl[w].acceptor_id}

\* C7 (amended): a wager stores one acceptor_id at a time, and an id that
\* was never stored on it before is stored only by an atomic accept that
\* finds it Open; a failed accept clears the id, after which the atomic
\* accept of another caller may store a different one.
C7_AcceptorStoredByAtomicAccept ==
    /\ [](\A w \in WagerIds : StoredAcceptor(wagers, w) \subseteq acceptors[w])
    /\ [][\A w \in WagerIds :
             ~ (StoredAcceptor(wagers', w) \subseteq acceptors[w]) =>
                 /\ wagers[w].status = "open"
                 /\ wagers[w].acceptor_id = "none"
                 /\ wagers'[w].status = "accepting"]_vars

\* A second acceptor was stored after the first one's accept had failed.
C7_Witness ==
    \E w \in WagerIds : Cardinality(acceptors[w]) = 2 /\ wagers[w].status = "accepted"

RECURSIVE SumAmounts(_)
SumAmounts(log) == IF log = <<>> THEN 0 ELSE Head(log).amount + SumAmounts(Tail(log))

\* The two escrows of wager `w`.
Escrows(w) == {wagers[w].creator_escrow_address, wagers[w].acceptor_escrow_address}

\* What the two escrows of wager `w` sent under `tag`.
Moved(w, tag) ==
    SumAmounts(SelectSeq(transfers[w], LAMBDA x : x.tag = tag /\ x.from \in Escrows(w)))

\* Everything the two escrows of wager `w` sent.
MovedInAll(w) == SumAmounts(SelectSeq(transfers[w], LAMBDA x : x.from \in Escrows(w)))

\* The deposits escrow `e` received.
Funded(e) == SumAmounts(SelectSeq(chain, LAMBDA x : x.dest = e))

FundedExactly(w) ==
    /\ Funded(wagers[w].creator_escrow_address) = wagers[w].amount
    /\ Funded(wagers[w].acceptor_escrow_address) = wagers[w].amount

C10_CancelRespectsSoftLock ==
    /\ \A c \in CallIds : calls[c].op = "cancel" => ~ calls[c].locked
    /\ (resp.op = "cancel" /\ resp.result = "ok") => ~ resp.locked

\* A step in which verify-deposit call `c` returns.
VerifyReturns(c) == calls[c].op = "verify" /\ calls'[c].op = "idle"

\* C11: verify-deposit changes a wager's status only from PendingDeposit to
\* Open, and only when the deposit verifier accepted the signature against
\* the creator escrow, the signature being recorded in the same call; a
\* rejected call leaves every status and the used-signature table unchanged.
C11_ConfirmOnlyPendingToOpen ==
    [][\A c \in CallIds :
          VerifyReturns(c) =>
              /\ \A w \in WagerIds :
                     wagers'[w].status # wagers[w].status =>
                         /\ wagers[w].status = "pending_deposit"
                         /\ wagers'[w].status = "open"
                         /\ resp'.result = "ok"
                         /\ verify_deposit_to_escrow(calls[c].sig,
                                wagers[w].creator_escrow_address, wagers[w].amount)
                         /\ used_signatures'[calls[c].sig] # 0
              /\ resp'.result # "ok" =>
                     /\ used_signatures' = used_signatures
                     /\ \A w \in WagerIds : wagers'[w].status = wagers[w].status]_vars

\* ------------------------------------------------------------ fairness
\* verify_game_result: a record without blockhash or result is not fair.
verify_game_result(game) ==
    IF game.blockhash = 0 \/ game.result = "none"
    THEN FALSE
    ELSE flip_coin(game.blockhash, game.game_id) = game.result

\* get_recent_games: the proof it recomputes from the stored row with its
\* own copy of the digest test.
proof(game) ==
    [game_id |-> game.game_id,
     blockhash |-> game.blockhash,
     first_byte |-> first_byte(game.blockhash, game.game_id),
     is_even |-> first_byte(game.blockhash, game.game_id) % 2 = 0,
     expected_result |->
         IF first_byte(game.blockhash, game.game_id) % 2 = 0 THEN "heads" ELSE "tails",
     actual_result |-> game.result,
     verified |->
         (IF first_byte(game.blockhash, game.game_id) % 2 = 0 THEN "heads" ELSE "tails")
             = game.result]

\* A row of the games table whose result or blockhash column was altered
\* after settlement wrote it.
Tampered(game) ==
    {[game EXCEPT !.result = r] : r \in (Sides \cup {"none"}) \ {game.result}}
    \cup {[game EXCEPT !.blockhash = 0, !.result = r] : r \in Sides}

\* GET /api/game/verify/{game_id} on the row `game`
verify_game(game) ==
    /\ UNCHANGED rpcvars
    /\ resp' = [op |-> "verify_game", result |-> "ok", record |-> game,
                is_fair |-> verify_game_result(game)]
    /\ UNCHANGED <<wagers, used_signatures, users, chain, balance, transfers, nextEscrow,
                   nextWager, nextGame, games, now, calls, soft_lock, acceptors>>

\* GET /api/games/recent: rows without proof data are skipped.
get_recent_games ==
    /\ UNCHANGED rpcvars
    /\ resp' = [op |-> "recent", result |-> "ok",
                proofs |-> {proof(g) : g \in {x \in games : x.blockhash # 0 /\ x.result # "none"}}]
    /\ UNCHANGED <<wagers, used_signatures, users, chain, balance, transfers, nextEscrow,
                   nextWager, nextGame, games, now, calls, soft_lock, acceptors>>

\* Settlement of one wager and the public verification of its game.
NextFair ==
    \/ Funding(OneCall)
    \/ Accepting(OneCall)
    \/ \E g \in games : verify_game(g)
    \/ \E g \in games : \E t \in Tampered(g) : verify_game(t)
    \/ get_recent_games

SpecFair == Init /\ [][NextFair]_vars

record_success(ep) ==
    LET counted == [ep EXCEPT !.success_count = @ + 1, !.total_requests = @ + 1,
                              !.failure_count = 0, !.streak = 0,
                              !.trial_streak = @ + 1]
    IN  IF counted.circuit_state = "half_open" /\ counted.success_count >= success_threshold
        THEN [counted EXCEPT !.circuit_state = "closed", !.success_count = 0]
        ELSE counted

\* record_failure with the circuit opened one failure late.
record_failure_above_threshold(ep, t) ==
    LET counted == [ep EXCEPT !.failure_count = @ + 1, !.total_requests = @ + 1,
                              !.last_failure_time = t, !.streak = @ + 1,
                              !.trial_streak = 0]
    IN  IF counted.failure_count > failure_threshold /\ counted.circuit_state # "open"
        THEN [counted EXCEPT !.circuit_state = "open"]
        ELSE counted

\* RPCEndpoint.record_failure at time t.
record_failure(ep, t) ==
    LET counted == [ep EXCEPT !.failure_count = @ + 1, !.total_requests = @ + 1,
                              !.last_failure_time = t, !.streak = @ + 1,
                              !.trial_streak = 0]
    IN  IF counted.failure_count >= failure_threshold /\ counted.circuit_state # "open"
        THEN [counted EXCEPT !.circuit_state = "open"]
        ELSE counted

\* The cooldown of an endpoint has elapsed at time t.
cooldown_elapsed(ep, t) ==
    ep.last_failure_time >= 0 /\ t >= ep.last_failure_time + timeout_seconds

\* RPCEndpoint.should_attempt at time t: the value it returns ...
should_attempt(ep, t) ==
    CASE ep.circuit_state = "closed" -> TRUE
      [] ep.circuit_state = "half_open" -> TRUE
      [] ep.circuit_state = "open" -> cooldown_elapsed(ep, t)

\* ... and the endpoint it leaves: an Open endpoint whose cooldown has elapsed
\* becomes Half-Open with success_count 0.
should_attempt_state(ep, t) ==
    IF ep.circuit_state = "open" /\ cooldown_elapsed(ep, t)
    THEN [ep EXCEPT !.circuit_state = "half_open", !.success_count = 0,
                    !.trial_streak = 0]
    ELSE ep

\* visit_endpoints without the max_retries test.
RECURSIVE visit_endpoints_unbounded(_, _, _, _, _, _)
visit_endpoints_unbounded(eps, i, attempts, max_retries, log, t) ==
    IF i > NumEndpoints
    THEN [eps |-> eps, at |-> 0, attempts |-> attempts, log |-> log]
    ELSE IF ~should_attempt(eps[i], t)
         THEN visit_endpoints_unbounded(eps, i + 1, attempts, max_retries,
                              Append(log, [endpoint |-> i, outcome |-> "skipped"]), t)
         ELSE [eps |-> [eps EXCEPT ![i] = should_attempt_state(eps[i], t)],
               at |-> i, attempts |-> attempts + 1, log |-> log]

\* The for loop of call_with_failover from endpoint i up to its next
\* `await method(endpoint.url)` (at = the endpoint invoked) or to its end
\* (at = 0); log is history: what the call did with each endpoint it visited.
RECURSIVE visit_endpoints(_, _, _, _, _, _)
visit_endpoints(eps, i, attempts, max_retries, log, t) ==
    IF i > NumEndpoints \/ attempts >= max_retries
    THEN [eps |-> eps, at |-> 0, attempts |-> attempts, log |-> log]
    ELSE IF ~should_attempt(eps[i], t)
         THEN visit_endpoints(eps, i + 1, attempts, max_retries,
                              Append(log, [endpoint |-> i, outcome |-> "skipped"]), t)
         ELSE [eps |-> [eps EXCEPT ![i] = should_attempt_state(eps[i], t)],
               at |-> i, attempts |-> attempts + 1, log |-> log]

\* The call as the loop leaves it: suspended on endpoint v.at, or over with
\* "All RPC endpoints failed. Last error: <last_error>".
after_visit(o, v, max_retries, last_error, trial) ==
    IF v.at # 0
    THEN /\ rpc_calls' = [rpc_calls EXCEPT ![o] =
                [op |-> "rpc", at |-> v.at, attempts |-> v.attempts,
                 max_retries |-> max_retries, last_error |-> last_error,
                 log |-> v.log, trial |-> trial]]
         /\ resp' = NoResp
    ELSE /\ rpc_calls' = [rpc_calls EXCEPT ![o] = NoCall]
         /\ resp' = [op |-> "rpc", result |-> "error", call |-> o, endpoint |-> 0,
                     last_error |-> last_error, attempts |-> v.attempts,
                     max_retries |-> max_retries, log |-> v.log]

\* call_with_failover up to its first await (or to its end when every
\* endpoint is skipped).
call_with_failover_begin(o, max_retries) ==
    /\ rpc_calls[o].op = "idle"
    /\ \A e \in EndpointIds : endpoints[e].total_requests < MaxRequests
    /\ LET v == visit_endpoints(endpoints, 1, 0, max_retries, <<>>, now)
       IN  /\ endpoints' = v.eps
           /\ after_visit(o, v, max_retries, 0,
                          v.at # 0 /\ endpoints[v.at].circuit_state # "closed")
    /\ UNCHANGED <<wagers, used_signatures, users, chain, balance, transfers, nextEscrow,
                   nextWager, nextGame, games, now, calls, soft_lock, acceptors>>
    /\ UNCHANGED solvars

\* call_with_failover_success with the success recorded on the first endpoint
\* of the list whatever endpoint answered.
call_with_failover_success_first_endpoint(o) ==
    /\ rpc_calls[o].op = "rpc"
    /\ LET e == rpc_calls[o].at
       IN  /\ endpoints' = [endpoints EXCEPT ![1] = record_success(@)]
           /\ resp' = [op |-> "rpc", result |-> "ok", call |-> o, endpoint |-> e,
                       last_error |-> rpc_calls[o].last_error,
                       attempts |-> rpc_calls[o].attempts,
                       max_retries |-> rpc_calls[o].max_retries,
                       log |-> Append(rpc_calls[o].log,
                                      [endpoint |-> e, outcome |-> "succeeded"])]
    /\ rpc_calls' = [rpc_calls EXCEPT ![o] = NoCall]
    /\ UNCHANGED <<wagers, used_signatures, users, chain, balance, transfers, nextEscrow,
                   nextWager, nextGame, games, now, calls, soft_lock, acceptors>>
    /\ UNCHANGED solvars

\* `result = await method(endpoint.url)` returns: record_success, return.
call_with_failover_success(o) ==
    /\ rpc_calls[o].op = "rpc"
    /\ LET e == rpc_calls[o].at
       IN  /\ endpoints' = [endpoints EXCEPT ![e] = record_success(@)]
           /\ resp' = [op |-> "rpc", result |-> "ok", call |-> o, endpoint |-> e,
                       last_error |-> rpc_calls[o].last_error,
                       attempts |-> rpc_calls[o].attempts,
                       max_retries |-> rpc_calls[o].max_retries,
                       log |-> Append(rpc_calls[o].log,
                                      [endpoint |-> e, outcome |-> "succeeded"])]
    /\ rpc_calls' = [rpc_calls EXCEPT ![o] = NoCall]
    /\ UNCHANGED <<wagers, used_signatures, users, chain, balance, transfers, nextEscrow,
                   nextWager, nextGame, games, now, calls, soft_lock, acceptors>>
    /\ UNCHANGED solvars

\* `await method(endpoint.url)` raises: record_failure, then the loop goes on
\* to its next await or to its end.
call_with_failover_failure(o) ==
    /\ rpc_calls[o].op = "rpc"
    /\ LET e == rpc_calls[o].at
           failed == [endpoints EXCEPT ![e] = record_failure(@, now)]
           v == visit_endpoints(failed, e + 1, rpc_calls[o].attempts,
                                rpc_calls[o].max_retries,
                                Append(rpc_calls[o].log,
                                       [endpoint |-> e, outcome |-> "failed"]), now)
       IN  /\ endpoints' = v.eps
           /\ after_visit(o, v, rpc_calls[o].max_retries, e,
                          v.at # 0 /\ failed[v.at].circuit_state # "closed")
    /\ UNCHANGED <<wagers, used_signatures, users, chain, balance, transfers, nextEscrow,
                   nextWager, nextGame, games, now, calls, soft_lock, acceptors>>
    /\ UNCHANGED solvars

\* Concurrent call_with_failover operations and the clock.
NextRpc ==
    \/ \E o \in RpcCallIds, m \in MaxRetries : call_with_failover_begin(o, m)
    \/ \E o \in RpcCallIds : call_with_failover_success(o)
    \/ \E o \in RpcCallIds : call_with_failover_failure(o)
    \/ Tick

SpecRpc == Init /\ [][NextRpc]_vars

\* This step of call o invokes the operation on endpoint e.
Invoked(o, e) ==
    /\ rpc_calls'[o].op = "rpc"
    /\ rpc_calls'[o].at = e
    /\ rpc_calls[o].op = "rpc" => rpc_calls[o].at # e

\* Call o has skipped endpoint e.
Skipped(o, e) ==
    /\ rpc_calls[o].op = "rpc"
    /\ \E k \in DOMAIN rpc_calls[o].log :
           rpc_calls[o].log[k] = [endpoint |-> e, outcome |-> "skipped"]

\* C13: the step that records the third (or a later) consecutive failure of
\* an endpoint leaves it Open, and no call invokes the operation on an Open
\* endpoint before timeout_seconds have passed since its last recorded
\* failure.
C13_OpenAfterThresholdFailures ==
    [][\A e \in EndpointIds :
          /\ (/\ endpoints'[e].streak > endpoints[e].streak
              /\ endpoints'[e].streak >= failure_threshold)
                 => endpoints'[e].circuit_state = "open"
          /\ endpoints[e].circuit_state = "open" =>
                 /\ endpoints[e].last_failure_time >= 0
                 /\ \A o \in RpcCallIds :
                        Invoked(o, e) =>
                            now >= endpoints[e].last_failure_time + timeout_seconds
          /\ (endpoints[e].circuit_state = "open" /\ endpoints'[e].circuit_state # "open")
                 => \E o \in RpcCallIds : Invoked(o, e)]_vars

\* An endpoint opened by three consecutive failures is skipped by a call
\* that goes on to the next endpoint.
C13_Witness ==
    \E e \in EndpointIds, o \in RpcCallIds :
        /\ endpoints[e].circuit_state = "open"
        /\ endpoints[e].streak >= failure_threshold
        /\ now < endpoints[e].last_failure_time + timeout_seconds
        /\ Skipped(o, e)

\* Call p is suspended in a trial call on endpoint e: it invoked the
\* operation when e was Half-Open (or made it so) and has recorded no outcome.
TrialInFlight(p, e) ==
    /\ rpc_calls[p].op = "rpc"
    /\ rpc_calls[p].at = e
    /\ rpc_calls[p].trial

\* C14: while a trial call on a Half-Open endpoint is in flight, no other
\* call invokes the operation on that endpoint.
C14_SingleHalfOpenTrial ==
    [][\A e \in EndpointIds, o \in RpcCallIds :
          (Invoked(o, e) /\ endpoints'[e].circuit_state = "half_open")
              => ~ \E p \in RpcCallIds \ {o} : TrialInFlight(p, e)]_vars

\* C15: a step that records a failure on a Half-Open endpoint leaves it Open.
C15_HalfOpenFailureReopens ==
    [][\A e \in EndpointIds :
          (/\ endpoints[e].circuit_state = "half_open"
           /\ endpoints'[e].streak > endpoints[e].streak)
              => endpoints'[e].circuit_state = "open"]_vars

\* C16: a Half-Open endpoint becomes Closed in the step that records the
\* second consecutive success since it became Half-Open, and in no other.
C16_ClosedAtSecondConsecutiveSuccess ==
    [][\A e \in EndpointIds :
          endpoints[e].circuit_state = "half_open" =>
              (endpoints'[e].circuit_state = "closed"
                  <=> /\ endpoints'[e].trial_streak > endpoints[e].trial_streak
                      /\ endpoints'[e].trial_streak = success_threshold)]_vars

\* What call o has done with the endpoints it visited, before and after a step.
PreLog(o) ==
    IF rpc_calls[o].op = "rpc" THEN rpc_calls[o].log ELSE <<>>

PostLog(o) ==
    IF rpc_calls'[o].op = "rpc" THEN rpc_calls'[o].log
    ELSE IF resp'.op = "rpc" /\ resp'.call = o THEN resp'.log
    ELSE <<>>

\* This step of call o records the outcome of its attempt on endpoint e.
Recorded(o, e) ==
    /\ rpc_calls[o].op = "rpc"
    /\ rpc_calls[o].at = e
    /\ rpc_calls'[o] # rpc_calls[o]

\* A log visits the endpoints 1..n in list order, each once.
InListOrder(log, n) ==
    /\ Len(log) = n
    /\ \A k \in 1..n : log[k].endpoint = k

\* C17: a call visits the endpoints in list order; the endpoints it skips are
\* Open with their cooldown running and it leaves them as they are; a step
\* changes an endpoint only by invoking the operation on it or by recording
\* the outcome of an attempt on it; and the call that returns a result
\* returns that of the endpoint it was suspended on, after every earlier
\* endpoint was skipped or failed once, with the success counted on that
\* endpoint alone and no later endpoint visited.
C17_FailoverInListOrder ==
    [][/\ \A o \in RpcCallIds :
            /\ \A k \in (Len(PreLog(o)) + 1)..Len(PostLog(o)) :
                   LET e == PostLog(o)[k].endpoint
                   IN  PostLog(o)[k].outcome = "skipped" =>
                           /\ endpoints[e].circuit_state = "open"
                           /\ ~ cooldown_elapsed(endpoints[e], now)
                           /\ endpoints'[e] = endpoints[e]
            /\ rpc_calls'[o].op = "rpc" =>
                   /\ InListOrder(rpc_calls'[o].log, rpc_calls'[o].at - 1)
                   /\ \A k \in DOMAIN rpc_calls'[o].log :
                          rpc_calls'[o].log[k].outcome \in {"skipped", "failed"}
       /\ \A e \in EndpointIds :
            endpoints'[e] # endpoints[e] =>
                \E o \in RpcCallIds : Invoked(o, e) \/ Recorded(o, e)
       /\ (resp'.op = "rpc" /\ resp'.result = "ok") =>
            LET o == resp'.call
                e == resp'.endpoint
            IN  /\ Recorded(o, e)
                /\ rpc_calls'[o].op = "idle"
                /\ InListOrder(resp'.log, e)
                /\ resp'.log[e].outcome = "succeeded"
                /\ \A k \in 1..(e - 1) : resp'.log[k].outcome \in {"skipped", "failed"}
                /\ endpoints'[e] = record_success(endpoints[e])
                /\ endpoints'[e].total_requests = endpoints[e].total_requests + 1
                /\ endpoints'[e].streak = 0
                /\ \A x \in EndpointIds \ {e} : endpoints'[x] = endpoints[x]]_vars

\* A call returned the result of the second endpoint after skipping the
\* first, which is Open.
C17_Witness ==
    /\ resp.op = "rpc"
    /\ resp.result = "ok"
    /\ resp.endpoint = 2
    /\ resp.log[1].outcome = "skipped"
    /\ endpoints[1].circuit_state = "open"

\* The endpoints a log attempted, and the last one of them that failed (0 if
\* none did).
Attempted(log) ==
    {k \in DOMAIN log : log[k].outcome # "skipped"}

LastFailed(log) ==
    LET failed == {log[k].endpoint : k \in {x \in DOMAIN log : log[x].outcome = "failed"}}
    IN  IF failed = {} THEN 0 ELSE CHOOSE e \in failed : \A x \in failed : x <= e

\* Every endpoint of the list was skipped or failed.
AllSkippedOrFailed(log) ==
    /\ InListOrder(log, NumEndpoints)
    /\ \A k \in DOMAIN log : log[k].outcome \in {"skipped", "failed"}

\* C18: a call fails exactly when every endpoint was skipped or failed; the
\* error names the last failure; at most max_retries endpoints are attempted
\* and none twice.
C18_FailsIffAllSkippedOrFailed ==
    resp.op = "rpc" =>
        /\ resp.result = "error" <=> AllSkippedOrFailed(resp.log)
        /\ resp.result = "error" => resp.last_error = LastFailed(resp.log)
        /\ Cardinality(Attempted(resp.log)) <= resp.max_retries
        /\ InListOrder(resp.log, Len(resp.log))

\* C18 (amended): a call ends by returning a result or by raising; it raises
\* exactly when no endpoint it attempted succeeded, which is when every
\* endpoint was skipped or failed or when max_retries attempts were made and
\* all failed, the later endpoints not being visited; the error names the
\* last failure (none when nothing was attempted); the attempts number at
\* most max_retries and no endpoint is visited twice.
C18_FailsWhenNoAttemptSucceeds ==
    [][/\ \A o \in RpcCallIds :
            /\ rpc_calls'[o].op = "rpc" =>
                   /\ rpc_calls'[o].attempts = Cardinality(Attempted(rpc_calls'[o].log)) + 1
                   /\ rpc_calls'[o].attempts <= rpc_calls'[o].max_retries
                   /\ rpc_calls'[o].last_error = LastFailed(rpc_calls'[o].log)
            /\ (rpc_calls[o].op = "rpc" /\ rpc_calls'[o].op = "idle") =>
                   resp'.op = "rpc" /\ resp'.call = o
       /\ resp'.op = "rpc" =>
            /\ resp'.result \in {"ok", "error"}
            /\ InListOrder(resp'.log, Len(resp'.log))
            /\ resp'.attempts = Cardinality(Attempted(resp'.log))
            /\ resp'.attempts <= resp'.max_retries
            /\ resp'.result = "error" <=>
                   \A k \in DOMAIN resp'.log : resp'.log[k].outcome \in {"skipped", "failed"}
            /\ resp'.result = "error" =>
                   /\ resp'.endpoint = 0
                   /\ resp'.last_error = LastFailed(resp'.log)
                   /\ \/ AllSkippedOrFailed(resp'.log)
                      \/ resp'.attempts = resp'.max_retries]_vars

\* A call failed after max_retries attempts with an endpoint left unvisited.
C18_Witness ==
    /\ resp.op = "rpc"
    /\ resp.result = "error"
    /\ resp.attempts = resp.max_retries
    /\ Len(resp.log) < NumEndpoints
    /\ resp.last_error = 1

\* C19: the admin refund of a wager that was in a non-terminal status when
\* the request read it returns with the wager stored as refunded.
C19_ForceRefundEndsRefunded ==
    [][\A c \in CallIds :
          (/\ calls[c].op = "admin_refund"
           /\ calls'[c].op = "idle"
           /\ calls[c].wager.status \notin Terminal)
              => wagers'[calls[c].wager.wager_id].status = "refunded"]_vars

\* ---------------------------------------------------------------------------
\* Requests that fail validation.
\* ---------------------------------------------------------------------------
BadSides == {"edge"}
BadAmounts == {0}

\* The wager requests together with the ones validation rejects: a create
\* with a bad side or a bad amount, a prepare-accept and an accept sent from
\* the creator's own wallet.
NextValidation ==
    \/ Funding(OneCall)
    \/ Accepting(OneCall)
    \/ \E cw \in Wallets, s \in Sides \cup BadSides, a \in Amounts \cup BadAmounts :
           (s \in BadSides \/ a \in BadAmounts) /\ create_wager(cw, s, a)
    \/ \E w \in Created : prepare_accept_wager(w, wagers[w].creator_wallet)
    \/ \E c \in OneCall, w \in Created, s \in SigIds :
           accept_wager_endpoint_begin(c, w, wagers[w].creator_wallet, s)

SpecValidation == Init /\ [][NextValidation]_vars

EncryptionKeys == {"key", "other_key"}

\* utils.decrypt_secret: the secret, or the InvalidToken Fernet raises when
\* the key is not the one the secret was encrypted with.
InvalidToken == -1

decrypt_secret(encrypted_secret, encryption_key) ==
    IF encryption_key = "key" THEN encrypted_secret ELSE InvalidToken

\* The escrow key as admin_export_escrow_key reports it.
exported_key(encrypted_secret, encryption_key) ==
    IF encrypted_secret = 0 THEN "none"
    ELSE IF decrypt_secret(encrypted_secret, encryption_key) = InvalidToken
         THEN "DECRYPT_ERROR"
         ELSE "key"

\* POST /api/admin/wager/{wager_id}/export-key
admin_export_escrow_key(wid, encryption_key) ==
    /\ IF ~ wager_exists(wid)
       THEN resp' = [op |-> "export_key", result |-> "not_found"]
       ELSE LET wager == get_wager(wid)
            IN  resp' = [op |-> "export_key", result |-> "ok", wager_id |-> wid,
                         creator_escrow_key |->
                             exported_key(wager.creator_escrow_secret, encryption_key),
                         acceptor_escrow_key |->
                             exported_key(wager.acceptor_escrow_secret, encryption_key)]
    /\ UNCHANGED <<wagers, used_signatures, users, chain, balance, transfers, nextEscrow,
                   nextWager, nextGame, games, now, calls, soft_lock, acceptors>>
    /\ UNCHANGED rpcvars

\* Funding of a wager and the export of its escrow keys.
NextDecrypt ==
    \/ Funding(OneCall)
    \/ \E w \in WagerIds, k \in EncryptionKeys : admin_export_escrow_key(w, k)

SpecDecrypt == Init /\ [][NextDecrypt]_vars

\* C21: an operation that hit a decryption failure does not report success.
C21_DecryptFailureNotSwallowed ==
    (/\ resp.op = "export_key"
     /\ resp.result # "not_found"
     /\ "DECRYPT_ERROR" \in {resp.creator_escrow_key, resp.acceptor_escrow_key})
        => resp.result # "ok"

UserIds == {wallet_to_user_id(w) : w \in Wallets} \cup {r.user_id : r \in users}

\* POST /api/auth/register: a User without user_id is inserted.
register ==
    /\ Cardinality(users) < MaxUsers
    /\ users' = save_user(users, new_user("none", "none"))
    /\ resp' = [op |-> "register", result |-> "ok"]
    /\ UNCHANGED <<wagers, used_signatures, chain, balance, transfers, nextEscrow,
                   nextWager, nextGame, games, now, calls, soft_lock, acceptors>>
    /\ UNCHANGED rpcvars

\* test_database: save_user of a user with an assigned id, then get_user.
test_database(user) ==
    /\ users' = save_user(users, user)
    /\ resp' = [op |-> "test_database", result |-> "ok", user |-> user,
                was_new |-> ~ has_row(users, user.user_id),
                retrieved |-> get_user(users', user.user_id)]
    /\ UNCHANGED <<wagers, used_signatures, chain, balance, transfers, nextEscrow,
                   nextWager, nextGame, games, now, calls, soft_lock, acceptors>>
    /\ UNCHANGED rpcvars

\* A request calls ensure_web_user(wallet).
ensure_web_user_call(wallet) ==
    /\ users' = ensure_web_user(users, wallet)
    /\ resp' = [op |-> "ensure_web_user", wallet |-> wallet,
                result |-> IF get_user(users, wallet_to_user_id(wallet)).outcome = "None"
                           THEN "ok" ELSE "AttributeError"]
    /\ UNCHANGED <<wagers, used_signatures, chain, balance, transfers, nextEscrow,
                   nextWager, nextGame, games, now, calls, soft_lock, acceptors>>
    /\ UNCHANGED rpcvars

NextUsers ==
    \/ register
    \/ \E id \in UserIds, w \in Wallets : test_database(new_user(id, w))
    \/ \E w \in Wallets : ensure_web_user_call(w)

SpecUsers == Init /\ [][NextUsers]_vars

\* C22: get_user after save_user of a user whose assigned id was not in the
\* store returns that user, and the user ensure_web_user returned has a row.
C22_UserStoreRoundTrips ==
    /\ (resp.op = "test_database" /\ resp.was_new) =>
           /\ resp.retrieved.outcome = "user"
           /\ resp.retrieved.user = resp.user
    /\ (resp.op = "ensure_web_user" /\ resp.result = "ok") =>
           has_row(users, wallet_to_user_id(resp.wallet))

\* C23: of the deposit confirmations that carry one signature at most one
\* gets past the unused-signature check: no two of them are in flight past
\* the check together, and the one that activates the wager is the one that
\* records the signature.
C23_SignatureCheckedAndRecordedAtOnce ==
    [][/\ \A c, d \in CallIds :
            (/\ c # d
             /\ calls'[c].op = "verify"
             /\ calls'[d].op = "verify")
                => calls'[c].sig # calls'[d].sig
       /\ \A c \in CallIds :
            (VerifyReturns(c) /\ resp'.result = "ok")
                => used_signatures[calls[c].sig] = 0]_vars

\* ---------------------------------------------------------------------------
\* Cancel next to accept.
\* ---------------------------------------------------------------------------

\* One wager with a cancel and, while it is in flight, an accept request.
NextRace ==
    \/ Funding(OneCall)
    \/ Accepting(CallIds \ OneCall)
    \/ \E c \in OneCall, w \in Created, a \in CreatorWallets :
           cancel_wager_endpoint_begin(c, w, a)
    \/ \E c \in OneCall, ok \in BOOLEAN : refund_from_escrow_refund(c, ok)
    \/ \E c \in OneCall, ok \in BOOLEAN : refund_from_escrow_fee(c, ok)

SpecRace == Init /\ [][NextRace]_vars

\* The creator escrow of wager w sent a transfer with this tag.
CreatorEscrowSent(w, tag) ==
    \E i \in DOMAIN transfers[w] :
        /\ transfers[w][i].tag = tag
        /\ transfers[w][i].from = wagers[w].creator_escrow_address

\* C24: the creator escrow of a wager is never both refunded to the creator
\* by a cancel and paid out by a settlement.
C24_CancelOrAcceptNotBoth ==
    \A w \in WagerIds :
        wagers[w].status # "absent" =>
            ~ (CreatorEscrowSent(w, "refund") /\ CreatorEscrowSent(w, "payout"))

\* ---------------------------------------------------------------------------
\* Requests that read a wager before an accept and write it afterwards.
\* ---------------------------------------------------------------------------

\* One wager, two deposit confirmations in flight, the requests around the
\* soft lock and one accept.
NextStale ==
    \/ Funding(CallIds)
    \/ Accepting(OneCall)
    \/ \E w \in Created, a \in Acceptors : abandon_accept_wager(w, a)
    \/ get_open_wagers

SpecStale == Init /\ [][NextStale]_vars

\* C25: a step of prepare-accept, abandon-accept, verify-deposit or the
\* open-wagers listing leaves the status and the acceptor_id of a wager that
\* is stored as accepting as they are.
C25_NoStaleStatusWrite ==
    [][((\E c \in CallIds : VerifyReturns(c)) \/ resp'.op \in {"prepare", "abandon", "list"})
          => \A w \in WagerIds :
                 wagers[w].status = "accepting" =>
                     /\ wagers'[w].status = "accepting"
                     /\ wagers'[w].acceptor_id = wagers[w].acceptor_id]_vars

\* ---------------------------------------------------------------------
\* Soft lock against a second acceptor.

\* An accept request of slot c has passed its checks in this step.
AcceptAdmitted(c) == calls[c].op = "idle" /\ calls'[c].op = "accept"

\* C26: while the soft lock party Y's prepare-accept placed on a wager is
\* unexpired, a prepare-accept by another party does not replace the
\* acceptor escrow of the wager, and an accept by another party is not
\* admitted.
C26_SoftLockBlocksOtherParty ==
    [][\A w \in WagerIds :
          /\ (/\ resp'.op = "prepare"
              /\ LockedByOther(w, soft_lock'[w].acceptor_wallet))
                 => wagers'[w].acceptor_escrow_address = wagers[w].acceptor_escrow_address
          /\ \A c \in CallIds :
                 (AcceptAdmitted(c) /\ calls'[c].wager.wager_id = w)
                     => ~ LockedByOther(w, calls'[c].wallet)]_vars

\* ---------------------------------------------------------------------
\* The key of a funded acceptor escrow.

\* The acceptor escrow stored on wager w holds more than the rent floor.
FundedAcceptorEscrow(w) ==
    /\ wagers[w].status # "absent"
    /\ wagers[w].acceptor_escrow_address # 0
    /\ balance[wagers[w].acceptor_escrow_address] > RENT_EXEMPT_LAMPORTS

\* C27: while the acceptor escrow of a wager holds funds, no step clears or
\* overwrites its address or its encrypted secret on the wager.
C27_FundedAcceptorEscrowKept ==
    [][\A w \in WagerIds :
          FundedAcceptorEscrow(w) =>
              /\ wagers'[w].acceptor_escrow_address = wagers[w].acceptor_escrow_address
              /\ wagers'[w].acceptor_escrow_secret = wagers[w].acceptor_escrow_secret]_vars

\* ---------------------------------------------------------------------
\* A failed transfer of the settlement.

\* The settlement of slot c is about to issue a transfer: a payout, the
\* commission, or a sweep of an escrow that holds more than the rent floor.
TransferDue(c) ==
    /\ calls[c].op = "accept"
    /\ \/ calls[c].pc \in {"pay_winner", "pay_loser", "commission"}
       \/ calls[c].pc = "sweep_winner" /\ amount_to_collect(winner_escrow(calls[c])) > 0
       \/ calls[c].pc = "sweep_loser" /\ amount_to_collect(loser_escrow(calls[c])) > 0

\* The request of slot c has moved on or has ended.
Stepped(c) ==
    IF calls'[c].op = "accept" THEN calls'[c].pc # calls[c].pc ELSE calls'[c] = NoCall

Issued(c) ==
    LET log == transfers[calls[c].wager.wager_id]
    IN  SubSeq(log, Len(log) - calls[c].paid + 1, Len(log))

\* Payout from the winner's escrow, payout from the loser's escrow, then
\* the commission from the loser's escrow if there is one, then sweeps to
\* the treasury.
InSettlementOrder(seq, win, los) ==
    /\ Len(seq) >= 1 => seq[1].tag = "payout" /\ seq[1].from = win
    /\ Len(seq) >= 2 => seq[2].tag = "payout" /\ seq[2].from = los
    /\ \A i \in 3..Len(seq) :
          \/ seq[i].tag = "commission" /\ i = 3 /\ seq[i].from = los
          \/ seq[i].tag = "sweep" /\ seq[i].to = "treasury" /\ seq[i].from \in {win, los}

transfer_max_retries == 3

\* What `await client.send_raw_transaction(...)` can come to: the node took
\* the transaction and answered with its signature; the node refused it and
\* answered with an error; the node took it and the answer never arrived.
SendOutcomes == {"returned", "refused", "lost"}

\* Transaction.new_signed_with_payer: sender and recipient being fixed, the
\* signed transaction (and its signature) is determined by the lamports and
\* the recent blockhash.
signed_transaction(call) == [lamports |-> call.amount, blockhash |-> call.blockhash]

\* The ledger processes a submitted transaction: a signature it has seen is
\* ignored, a transfer the balance covers is debited, another one fails.
process(ldg, tx) ==
    IF tx \in ldg.signatures THEN ldg
    ELSE IF ldg.balance >= tx.lamports
    THEN [balance |-> ldg.balance - tx.lamports, signatures |-> ldg.signatures \cup {tx}]
    ELSE [ldg EXCEPT !.signatures = @ \cup {tx}]

\* `except Exception` of the loop: the next attempt, or the raise after the
\* last one.
attempt_failed(k) ==
    IF sol_calls[k].attempt < transfer_max_retries
    THEN /\ sol_calls' = [sol_calls EXCEPT ![k].attempt = @ + 1, ![k].pc = "blockhash"]
         /\ resp' = NoResp
    ELSE /\ sol_calls' = [sol_calls EXCEPT ![k] = NoCall]
         /\ resp' = [op |-> "transfer_sol", result |-> "raised", call |-> k,
                     attempt |-> sol_calls[k].attempt]

WagerVarsUnchanged ==
    UNCHANGED <<wagers, used_signatures, users, chain, balance, transfers, nextEscrow,
                nextWager, nextGame, games, now, calls, soft_lock, acceptors,
                endpoints, rpc_calls>>

\* transfer_sol is called: a non-positive amount raises at once, otherwise
\* the first attempt starts and awaits get_latest_blockhash.
transfer_sol_begin(k, amount_sol) ==
    /\ sol_calls[k].op = "idle"
    /\ IF amount_sol <= 0
       THEN /\ resp' = [op |-> "transfer_sol", result |-> "raised", call |-> k,
                        attempt |-> 0]
            /\ UNCHANGED <<sol_calls, moved>>
       ELSE /\ sol_calls' = [sol_calls EXCEPT ![k] =
                   [op |-> "transfer_sol", pc |-> "blockhash", attempt |-> 1,
                    amount |-> amount_sol, blockhash |-> 0]]
            /\ moved' = [moved EXCEPT ![k] = 0]
            /\ resp' = NoResp
    /\ UNCHANGED ledger
    /\ WagerVarsUnchanged

\* `await client.get_latest_blockhash(Confirmed)` returns or raises; the
\* transaction is built and signed and send_raw_transaction awaited.
transfer_sol_blockhash(k, recent_blockhash, ok) ==
    /\ sol_calls[k].op = "transfer_sol" /\ sol_calls[k].pc = "blockhash"
    /\ IF ok
       THEN /\ sol_calls' = [sol_calls EXCEPT ![k].pc = "send",
                                              ![k].blockhash = recent_blockhash]
            /\ resp' = NoResp
       ELSE attempt_failed(k)
    /\ UNCHANGED <<ledger, moved>>
    /\ WagerVarsUnchanged

\* `await client.send_raw_transaction(bytes(tx), opts)` returns or raises.
transfer_sol_send(k, outcome) ==
    /\ sol_calls[k].op = "transfer_sol" /\ sol_calls[k].pc = "send"
    /\ LET tx == signed_transaction(sol_calls[k])
           after == IF outcome = "refused" THEN ledger ELSE process(ledger, tx)
       IN  /\ ledger' = after
           /\ moved' = [moved EXCEPT ![k] = IF after.balance < ledger.balance
                                            THEN @ + 1 ELSE @]
           /\ IF outcome = "returned"
              THEN /\ sol_calls' = [sol_calls EXCEPT ![k] = NoCall]
                   /\ resp' = [op |-> "transfer_sol", result |-> "ok", call |-> k,
                               attempt |-> sol_calls[k].attempt]
              ELSE attempt_failed(k)
    /\ WagerVarsUnchanged

\* Concurrent transfer_sol calls from one sender.
NextTransfer ==
    \/ \E k \in SolCallIds, a \in SolAmounts : transfer_sol_begin(k, a)
    \/ \E k \in SolCallIds, b \in Blockhashes, ok \in BOOLEAN :
           transfer_sol_blockhash(k, b, ok)
    \/ \E k \in SolCallIds, o \in SendOutcomes : transfer_sol_send(k, o)

SpecTransfer == Init /\ [][NextTransfer]_vars

\* C30: one transfer_sol call, its retries included, moves its amount on
\* the ledger at most once.
C30_TransferMovesAtMostOnce == \A k \in SolCallIds : moved[k] <= 1

\* ---------------------------------------------------------------------
\* atomic_accept_wager as the accept request calls it.

\* C31: an accept request whose atomic_accept_wager returned false (the 409
\* answer) has changed no wager row; one whose atomic_accept_wager returned
\* true found the status open, and in that same step the row got status
\* accepting and the caller's id as acceptor_id, nothing else in the
\* table being changed.
C31_AtomicAcceptChecksAndWrites ==
    [][/\ (resp'.op = "accept" /\ resp'.result = "conflict") => wagers' = wagers
       /\ \A c \in CallIds :
              AcceptAdmitted(c) =>
                  LET w == calls'[c].wager.wager_id
                  IN  /\ wagers[w].status = "open"
                      /\ wagers' = [wagers EXCEPT ![w].status = "accepting",
                                                  ![w].acceptor_id = calls'[c].user]]_vars

\* A second accept was refused while the first one holds the wager.
C31_Witness ==
    /\ resp.op = "accept" /\ resp.result = "conflict"
    /\ \E c \in CallIds :
          /\ calls[c].op = "accept"
          /\ wagers[calls[c].wager.wager_id].status = "accepting"
          /\ wagers[calls[c].wager.wager_id].acceptor_id = calls[c].user

\* ---------------------------------------------------------------------
\* abandon-accept by the holder of the soft lock.

\* C32: an abandon-accept request by the party whose prepare-accept placed
\* the soft lock on the wager succeeds, clears the acceptor escrow fields
\* of the lock and leaves the stored status as it is; a request by anyone
\* else, or on a wager without a lock, is rejected and changes no row.
C32_AbandonByLockHolderOnly ==
    [][(resp'.op = "abandon" /\ resp'.wager_id \in WagerIds) =>
          LET w == resp'.wager_id
          IN  IF soft_lock[w].acceptor_wallet = resp'.wallet
              THEN /\ resp'.result = "ok"
                   /\ wagers'[w].acceptor_escrow_address = 0
                   /\ wagers'[w].acceptor_escrow_secret = 0
                   /\ wagers'[w].status = wagers[w].status
              ELSE resp'.result # "ok" /\ wagers' = wagers]_vars

\* ---------------------------------------------------------------------
\* Expiry of the soft lock.

\* The soft lock prepare-accept placed on wager w is 60 s old or older.
LockExpired(w) ==
    /\ soft_lock[w].acceptor_wallet # "none"
    /\ now - soft_lock[w].accepting_at >= ACCEPTING_TIMEOUT_SECONDS

\* C33: the list of open wagers reports an open wager whose soft lock has
\* expired as not being accepted and clears the lock's acceptor escrow
\* fields on its row; a cancel is refused for a soft lock only while some
\* wager carries an unexpired one.
C33_ExpiredLockTreatedAsAbsent ==
    [][/\ resp'.op = "list" =>
              \A w \in WagerIds :
                  (wagers[w].status = "open" /\ LockExpired(w)) =>
                      /\ w \notin resp'.accepting
                      /\ wagers'[w].acceptor_escrow_address = 0
                      /\ wagers'[w].acceptor_escrow_secret = 0
       /\ (resp'.op = "cancel" /\ resp'.result = "accepting") =>
              \E w \in WagerIds :
                  soft_lock[w].acceptor_wallet # "none" /\ ~ LockExpired(w)]_vars

\* ---------------------------------------------------------------------
\* Order of the steps of one wager.

\* Signature sig is recorded as used for wager w and is a confirmed
\* transaction that paid the wager amount into escrow e.
VerifiedDeposit(sig, w, e) ==
    /\ sig # 0
    /\ used_signatures[sig] = w
    /\ verify_deposit_to_escrow(sig, e, wagers[w].amount)

\* C34: a settlement transfer is made for a wager only by an accept request
\* that holds the wager after a successful atomic accept and has verified
\* the acceptor's deposit itself, the creator's deposit having been
\* verified before (the wager had become open).
C34_SettlementAfterDepositsAndAccept ==
    [][\A w \in WagerIds :
          transfers'[w] # transfers[w] =>
              \E c \in CallIds :
                  /\ calls[c].op = "accept" /\ calls[c].wager.wager_id = w
                  /\ VerifiedDeposit(calls[c].wager.creator_deposit_tx, w,
                                     calls[c].wager.creator_escrow_address)
                  /\ calls[c].wager.status = "accepting"
                  /\ calls[c].user \in acceptors[w]
                  /\ calls[c].wager.acceptor_id = calls[c].user
                  /\ calls[c].wager.acceptor_deposit_tx = calls[c].sig
                  /\ VerifiedDeposit(calls[c].sig, w,
                                     calls[c].wager.acceptor_escrow_address)]_vars

\* A settlement has made its first payout and awaits the second.
C34_Witness ==
    \E c \in CallIds :
        /\ calls[c].op = "accept" /\ calls[c].pc = "pay_loser"
        /\ Len(transfers[calls[c].wager.wager_id]) >= 1

\* ---------------------------------------------------------------------
\* Polling for a deposit.

\* check_escrow_deposit: None (0) while the escrow holds less than the
\* expected amount; otherwise the most recent confirmed transaction that
\* transfers the expected amount, within the tolerance, to the escrow.
\* The sender is not compared.
check_escrow_deposit(escrow_address, expected_amount) ==
    LET matching == {sig \in 1..Len(chain) :
                        verify_deposit_to_escrow(sig, escrow_address, expected_amount)}
    IN  IF balance[escrow_address] < expected_amount - DepositTolerance \/ matching = {}
        THEN 0
        ELSE CHOOSE sig \in matching : \A other \in matching : other <= sig

\* GET /api/wager/{wager_id}/check-deposit, up to the first await of
\* check_escrow_deposit.
check_wager_deposit_begin(c, wid) ==
    /\ UNCHANGED rpcvars
    /\ FreeCall(c)
    /\ IF ~ wager_exists(wid)
       THEN /\ resp' = [op |-> "check", result |-> "not_found"]
            /\ UNCHANGED calls
       ELSE LET wager == get_wager(wid) IN
            IF wager.status = "pending_deposit" /\ wager.creator_escrow_address = 0
            THEN /\ resp' = [op |-> "check", result |-> "no_escrow"]
                 /\ UNCHANGED calls
            ELSE IF wager.status = "pending_deposit"
            THEN /\ calls' = [calls EXCEPT ![c] =
                        [op |-> "check", wager |-> wager,
                         escrow |-> wager.creator_escrow_address]]
                 /\ resp' = NoResp
            ELSE IF wager.status = "open" /\ wager.acceptor_escrow_address # 0
                    /\ wager.acceptor_wallet = "none"
            THEN /\ resp' = [op |-> "check", result |-> "no_acceptor_wallet"]
                 /\ UNCHANGED calls
            ELSE IF wager.status = "open" /\ wager.acceptor_escrow_address # 0
            THEN /\ calls' = [calls EXCEPT ![c] =
                        [op |-> "check", wager |-> wager,
                         escrow |-> wager.acceptor_escrow_address]]
                 /\ resp' = NoResp
            ELSE /\ resp' = [op |-> "check", result |-> "none"]
                 /\ UNCHANGED calls
    /\ UNCHANGED <<wagers, used_signatures, users, chain, balance, transfers,
                   nextEscrow, nextWager, nextGame, games, now, soft_lock, acceptors>>

\* ... check_escrow_deposit has read the ledger; the response.
check_wager_deposit_end(c) ==
    /\ UNCHANGED rpcvars
    /\ calls[c].op = "check"
    /\ LET tx_sig == check_escrow_deposit(calls[c].escrow, calls[c].wager.amount)
       IN  resp' = [op |-> "check",
                    result |-> IF tx_sig # 0 THEN "found" ELSE "none",
                    transaction_signature |-> tx_sig,
                    wager_id |-> calls[c].wager.wager_id,
                    escrow |-> calls[c].escrow]
    /\ calls' = [calls EXCEPT ![c] = NoCall]
    /\ UNCHANGED <<wagers, used_signatures, users, chain, balance, transfers,
                   nextEscrow, nextWager, nextGame, games, now, soft_lock, acceptors>>

\* Funding of a wager while its deposit is polled for.
NextPoll ==
    \/ Funding(CallIds)
    \/ \E c \in CallIds, w \in Created : check_wager_deposit_begin(c, w)
    \/ \E c \in CallIds : check_wager_deposit_end(c)

SpecPoll == Init /\ [][NextPoll]_vars

\* C35: a check-deposit response that reports a deposit names a confirmed
\* transaction that pays the wager amount into the polled escrow and whose
\* signature is not recorded as used.
C35_FoundDepositMatchesAndUnconsumed ==
    (resp.op = "check" /\ resp.result = "found") =>
        /\ verify_deposit_to_escrow(resp.transaction_signature, resp.escrow,
                                    wagers[resp.wager_id].amount)
        /\ used_signatures[resp.transaction_signature] = 0


\* ------------------------------------------------ sides, winner, payee
\* C36: in every settlement the acceptor's side is the opposite of the
\* creator's, the winner is the creator exactly when the flip result is
\* the creator's side (otherwise the acceptor), and both payouts, the
\* first from the winner's escrow and the second from the loser's, go to
\* the winner's wallet.
C36_SidesWinnerAndPayee ==
    /\ [](\A g \in games :
            /\ g.player1_side \in Sides /\ g.player2_side \in Sides
            /\ g.player2_side # g.player1_side
            /\ g.result \in Sides
            /\ g.winner_id = (IF g.result = g.player1_side
                              THEN g.player1_id ELSE g.player2_id))
    /\ [][\A c \in CallIds :
            (calls[c].op = "accept" /\ Stepped(c) /\ transfers' # transfers)
                => LET w == calls[c].wager
                       sent == transfers'[w.wager_id][Len(transfers'[w.wager_id])]
                       creator_wins == calls[c].result = w.creator_side
                   IN  sent.tag = "payout"
                           => /\ sent.to = (IF creator_wins THEN w.creator_wallet
                                            ELSE calls[c].wallet)
                              /\ sent.from =
                                   (IF creator_wins = (calls[c].pc = "pay_winner")
                                    THEN w.creator_escrow_address
                                    ELSE w.acceptor_escrow_address)]_vars

\* Both outcomes happened: a game the creator won and a game the acceptor
\* won are recorded, each with two payouts to the winner on the log.
C36_Witness ==
    \E g \in games :
        /\ g.winner_id = g.player2_id
        /\ g.result = g.player2_side
        /\ Len(SelectSeq(transfers[g.wager_id],
                         LAMBDA x : x.tag = "payout" /\ x.to = g.player2_id)) = 2

\* ------------------------------------------------- effective fee rate
\* token_config.py: the token is not launched; rates and discounts are in
\* basis points, token balances in millions of tokens.
TOKEN_ENABLED == FALSE
BASE_FEE_RATE == 200
MAX_COMBINED_DISCOUNT == 4000
VolumeTiers == {"Starter", "Bronze", "Silver", "Gold", "Diamond"}
TokenBalances == {0, 1, 2, 4, 7, 10}
FeeStakes == {Stake, 2 * Stake, 3 * Stake + 1, LAMPORTS_PER_SOL}

fetch_token_balance(held) == IF ~ TOKEN_ENABLED THEN 0 ELSE held

get_tier_for_balance(tokens) ==
    CASE tokens >= 10 -> "Whale"
      [] tokens < 10 /\ tokens >= 7 -> "Gigachad"
      [] tokens < 7 /\ tokens >= 4 -> "Chad"
      [] tokens < 4 /\ tokens >= 2 -> "Ape"
      [] tokens < 2 /\ tokens >= 1 -> "Degen"
      [] tokens < 1 -> "Normie"

get_fee_discount(tier_name) ==
    CASE tier_name = "Whale" -> 1500
      [] tier_name = "Gigachad" -> 1200
      [] tier_name = "Chad" -> 900
      [] tier_name = "Ape" -> 600
      [] tier_name = "Degen" -> 300
      [] tier_name = "Normie" -> 0

calculate_combined_discount(volume_discount, token_discount) ==
    IF volume_discount + token_discount < MAX_COMBINED_DISCOUNT
    THEN volume_discount + token_discount
    ELSE MAX_COMBINED_DISCOUNT

effective_fee_rate_flat(volume_tier, token_tier) == BASE_FEE_RATE

\* play_pvp_game_with_escrows STEP 3: the volume tier's rate, replaced by
\* the combined-discount rate for a token holder when the token is enabled
effective_fee_rate(volume_tier, token_tier) ==
    IF TOKEN_ENABLED /\ token_tier # "Normie"
    THEN LET volume_discount ==
                 BpDenominator - MulDiv(tier_fee_rate(volume_tier), BpDenominator, BASE_FEE_RATE)
             combined_discount ==
                 calculate_combined_discount(volume_discount, get_fee_discount(token_tier))
         IN  MulDiv(BASE_FEE_RATE, BpDenominator - combined_discount, BpDenominator)
    ELSE tier_fee_rate(volume_tier)

\* The fee step of a settlement for a winner of the given volume tier whose
\* wallet holds the given tokens; winner.token_tier is only ever assigned
\* from the holder status of the wallet.
play_pvp_game_fee(volume_tier, held, amount) ==
    LET token_tier == get_tier_for_balance(fetch_token_balance(held))
        winner_rate == effective_fee_rate(volume_tier, token_tier)
    IN  /\ resp' = [op |-> "fee", result |-> "ok", tier |-> volume_tier,
                    held |-> held, token_tier |-> token_tier, amount |-> amount,
                    winner_fee_rate |-> winner_rate,
                    payout_per_escrow |->
                        MulDiv(amount, BpDenominator - winner_rate, BpDenominator)]
        /\ UNCHANGED <<wagers, used_signatures, users, chain, balance, transfers,
                       nextEscrow, nextWager, nextGame, games, now, calls,
                       soft_lock, acceptors>>
        /\ UNCHANGED rpcvars

\* tiers.calculate_referral_commission
calculate_referral_commission_with_tx_fees(fee_amount, referrer_tier) ==
    MulDiv(fee_amount + 2 * TRANSACTION_FEE, referral_commission_rate(referrer_tier),
           BpDenominator)

calculate_referral_commission(fee_amount, referrer_tier) ==
    MulDiv(fee_amount, referral_commission_rate(referrer_tier), BpDenominator)

\* STEP 5 for a winner whose referrer was found: the commission on the
\* game fees, the transfer from the loser's escrow (transfer_sol refuses an
\* amount of zero), and the referrer's earnings after it.
play_pvp_game_referral(winner_tier, referrer_tier, earned, amount, ok) ==
    LET fee_each_escrow == MulDiv(amount, effective_fee_rate(winner_tier, "Normie"),
                                  BpDenominator)
        game_fees_only == fee_each_escrow * 2
        commission == calculate_referral_commission(game_fees_only, referrer_tier)
        sent == ok /\ commission > 0
    IN  /\ resp' = [op |-> "referral", result |-> IF sent THEN "sent" ELSE "failed",
                    winner_tier |-> winner_tier, referrer_tier |-> referrer_tier,
                    amount |-> amount, commission |-> commission,
                    transferred |-> IF sent THEN commission ELSE 0,
                    earnings_before |-> earned,
                    referral_earnings |-> IF sent THEN earned + commission ELSE earned,
                    referral_commission_amount |-> IF sent THEN commission ELSE 0]
        /\ UNCHANGED <<wagers, used_signatures, users, chain, balance, transfers,
                       nextEscrow, nextWager, nextGame, games, now, calls,
                       soft_lock, acceptors>>
        /\ UNCHANGED rpcvars

NextFee ==
    \/ \E volume_tier \in VolumeTiers, held \in TokenBalances, amount \in FeeStakes :
           play_pvp_game_fee(volume_tier, held, amount)
    \/ \E winner_tier \in VolumeTiers, referrer_tier \in VolumeTiers,
          earned \in {0, Stake}, amount \in FeeStakes, ok \in BOOLEAN :
           play_pvp_game_referral(winner_tier, referrer_tier, earned, amount, ok)

SpecFee == Init /\ [][NextFee]_vars

StorageOutcomes == {"saved", "save_game_failed", "save_user_failed"}

\* The last sweep succeeds and accept_wager_endpoint runs on to its next
\* await: the tier update, save_wager of the accepted wager, save_game, the
\* statistics and save_user. An exception in any of them is caught by the
\* handler's except clause, which stores the wager as open without acceptor.
accept_wager_endpoint_bookkeeping(c, stored) ==
    IF stored = "saved"
    THEN play_pvp_game_sweep_loser(c, TRUE)
    ELSE /\ UNCHANGED rpcvars
         /\ calls[c].op = "accept" /\ calls[c].pc = "sweep_loser"
         /\ LET from == loser_escrow(calls[c])
                amount == amount_to_collect(from)
            IN  /\ amount = 0 \/ CanTransfer(from, amount)
                /\ IF amount = 0
                   THEN UNCHANGED <<balance, transfers>>
                   ELSE /\ balance' = Debit(balance, from, amount)
                        /\ transfers' = Sent(transfers, calls[c].wager.wager_id, from,
                                             "treasury", amount, "sweep")
         /\ wagers' = save_wager(save_wager(wagers, accepted_wager(calls[c])),
                                 revert_wager(accepted_wager(calls[c])))
         /\ games' = IF stored = "save_game_failed"
                     THEN games ELSE games \cup {game_row(calls[c])}
         /\ calls' = [calls EXCEPT ![c] = NoCall]
         /\ resp' = [op |-> "accept", result |-> "error", at |-> stored,
                     paid |-> calls[c].paid, raced |-> calls[c].raced,
                     wager_id |-> calls[c].wager.wager_id, user |-> calls[c].user]
         /\ UNCHANGED <<used_signatures, users, chain, nextEscrow, nextWager, nextGame,
                        now>>
         /\ UNCHANGED <<soft_lock, acceptors>>

NextBooks ==
    \/ Funding(OneCall)
    \/ Accepting(OneCall)
    \/ \E c \in OneCall, stored \in StorageOutcomes :
           accept_wager_endpoint_bookkeeping(c, stored)

SpecBooks == Init /\ [][NextBooks]_vars

\* The step in which accept call c makes its last transfer, the sweep of
\* the loser's escrow, and returns.
LastTransferMade(c) ==
    /\ calls[c].op = "accept" /\ calls[c].pc = "sweep_loser"
    /\ calls'[c] = NoCall
    /\ Len(transfers'[calls[c].wager.wager_id]) > Len(transfers[calls[c].wager.wager_id])

\* C39: when every settlement transfer of a wager succeeded, the accept
\* call ends with the wager accepted, its game_id set and the game stored;
\* no failure of the bookkeeping after the transfers leaves the wager open.
C39_SettledWagerEndsAccepted ==
    [][\A c \in CallIds :
          LastTransferMade(c)
              => LET w == calls[c].wager.wager_id
                 IN  /\ wagers'[w].status = "accepted"
                     /\ wagers'[w].game_id = calls[c].game_id
                     /\ \E g \in games' : g.game_id = calls[c].game_id /\ g.wager_id = w]_vars

\* ------------------------------------------------ accepting one's own
\* Accept requests, among them requests from the wallet whose user id is
\* the creator's.
NextCollide ==
    \/ Funding(OneCall)
    \/ Accepting(OneCall)
    \/ \E w \in Created : prepare_accept_wager(w, CollidingWallet)
    \/ \E c \in OneCall, w \in Created, s \in SigIds :
           accept_wager_endpoint_begin(c, w, CollidingWallet, s)

SpecCollide == Init /\ [][NextCollide]_vars

\* C40: no wager is accepting or accepted with acceptor_id equal to its
\* creator_id, whichever wallet the accepting user supplies.
C40_AcceptorIsNotCreator ==
    \A w \in WagerIds :
        (wager_exists(w) /\ wagers[w].status \in {"accepting", "accepted"})
            => wagers[w].acceptor_id # wagers[w].creator_id

====
